---------------------------- MODULE Spec2Model ----------------------------
(***************************************************************************)
(* A model of linux-audit-parser: the header and body grammar of           *)
(* src/parser.rs, the EventID / MessageType / Key text forms, and the      *)
(* arena-backed Body of src/body.rs.                                       *)
(*                                                                         *)
(* Bytes are integers 0..255 and every input is a sequence of bytes.  A    *)
(* recognizer takes the input s and the index i of the next unread byte    *)
(* (1-based, Len(s)+1 at end of input) and returns [ok, pos, val].         *)
(* Machine integers are little-endian sequences of 16-bit limbs (u64: 4    *)
(* limbs, u32: 2, u16: 1), so that their overflow is the machine's.        *)
(***************************************************************************)
EXTENDS Integers, Sequences, FiniteSets, TLC

VARIABLES
    obj, text, back, step,      \* text forms: the value, its display, the re-parse
    inp, out,                   \* parser: the input line and settings, the result
    bodies, heap, log,          \* Body: the live bodies, the heap, ghost history
    made,                       \* Body: how many bodies were created so far
    rep,                        \* parser: the repetition that runs, and where it is
    lit                         \* the string literals of the program: read-only data

vars == <<obj, text, back, step, inp, out, bodies, heap, log, made, rep, lit>>

-----------------------------------------------------------------------------
(* Byte strings *)

\* BEGIN LitTab
LitTab ==
  "" :> <<>> @@
  " " :> <<32>> @@
  " (" :> <<32, 40>> @@
  " msg=audit(" :> <<32, 109, 115, 103, 61, 97, 117, 100, 105, 116, 40>> @@
  " }" :> <<32, 125>> @@
  "'" :> <<39>> @@
  "(null)" :> <<40, 110, 117, 108, 108, 41>> @@
  ")" :> <<41>> @@
  "):" :> <<41, 58>> @@
  "): " :> <<41, 58, 32>> @@
  "-" :> <<45>> @@
  "." :> <<46>> @@
  "0" :> <<48>> @@
  "002" :> <<48, 48, 50>> @@
  "0o" :> <<48, 111>> @@
  "0x" :> <<48, 120>> @@
  "1" :> <<49>> @@
  "1615114232" :> <<49, 54, 49, 53, 49, 49, 52, 50, 51, 50>> @@
  "18446744073709551" :> <<49, 56, 52, 52, 54, 55, 52, 52, 48, 55, 51, 55, 48, 57, 53, 53, 49>> @@
  "18446744073709551615" :> <<49, 56, 52, 52, 54, 55, 52, 52, 48, 55, 51, 55, 48, 57, 53, 53, 49, 54, 49, 53>> @@
  "18446744073709551616" :> <<49, 56, 52, 52, 54, 55, 52, 52, 48, 55, 51, 55, 48, 57, 53, 53, 49, 54, 49, 54>> @@
  "18446744073709552" :> <<49, 56, 52, 52, 54, 55, 52, 52, 48, 55, 51, 55, 48, 57, 53, 53, 50>> @@
  "3" :> <<51>> @@
  "375" :> <<51, 55, 53>> @@
  "4294967295" :> <<52, 50, 57, 52, 57, 54, 55, 50, 57, 53>> @@
  "4294967296" :> <<52, 50, 57, 52, 57, 54, 55, 50, 57, 54>> @@
  "615" :> <<54, 49, 53>> @@
  "616" :> <<54, 49, 54>> @@
  ":" :> <<58>> @@
  "=" :> <<61>> @@
  "=x" :> <<61, 120>> @@
  "?" :> <<63>> @@
  "AVC" :> <<65, 86, 67>> @@
  "EOE" :> <<69, 79, 69>> @@
  "EXECVE" :> <<69, 88, 69, 67, 86, 69>> @@
  "LOGIN" :> <<76, 79, 71, 73, 78>> @@
  "MAC_POLICY_LOAD" :> <<77, 65, 67, 95, 80, 79, 76, 73, 67, 89, 95, 76, 79, 65, 68>> @@
  "MAC_UNLBL_ALLOW" :> <<77, 65, 67, 95, 85, 78, 76, 66, 76, 95, 65, 76, 76, 79, 87>> @@
  "PATH" :> <<80, 65, 84, 72>> @@
  "SADDR" :> <<83, 65, 68, 68, 82>> @@
  "SOCKADDR" :> <<83, 79, 67, 75, 65, 68, 68, 82>> @@
  "SYSCALL" :> <<83, 89, 83, 67, 65, 76, 76>> @@
  "TTY" :> <<84, 84, 89>> @@
  "UID=\"root\"\n" :> <<85, 73, 68, 61, 34, 114, 111, 111, 116, 34, 10>> @@
  "UNKNOWN[" :> <<85, 78, 75, 78, 79, 87, 78, 91>> @@
  "UNKNOWN[1329]" :> <<85, 78, 75, 78, 79, 87, 78, 91, 49, 51, 50, 57, 93>> @@
  "USER_ACCT" :> <<85, 83, 69, 82, 95, 65, 67, 67, 84>> @@
  "[" :> <<91>> @@
  "\"" :> <<34>> @@
  "\n" :> <<10>> @@
  "]" :> <<93>> @@
  "_len" :> <<95, 108, 101, 110>> @@
  "a" :> <<97>> @@
  "a0" :> <<97, 48>> @@
  "a0=10000000000000000 arch=10000000000000000 pid=9223372036854775808 mode=2000000000000000000000 uid=18446744073709551616 ses=1\n" :> <<97, 48, 61, 49, 48, 48, 48, 48, 48, 48, 48, 48, 48, 48, 48, 48, 48, 48, 48, 48, 32, 97, 114, 99, 104, 61, 49, 48, 48, 48, 48, 48, 48, 48, 48, 48, 48, 48, 48, 48, 48, 48, 48, 32, 112, 105, 100, 61, 57, 50, 50, 51, 51, 55, 50, 48, 51, 54, 56, 53, 52, 55, 55, 53, 56, 48, 56, 32, 109, 111, 100, 101, 61, 50, 48, 48, 48, 48, 48, 48, 48, 48, 48, 48, 48, 48, 48, 48, 48, 48, 48, 48, 48, 48, 48, 32, 117, 105, 100, 61, 49, 56, 52, 52, 54, 55, 52, 52, 48, 55, 51, 55, 48, 57, 53, 53, 49, 54, 49, 54, 32, 115, 101, 115, 61, 49, 10>> @@
  "a0=1f a1=zz items=2\n" :> <<97, 48, 61, 49, 102, 32, 97, 49, 61, 122, 122, 32, 105, 116, 101, 109, 115, 61, 50, 10>> @@
  "a0=6c73 a1=(null)\n" :> <<97, 48, 61, 54, 99, 55, 51, 32, 97, 49, 61, 40, 110, 117, 108, 108, 41, 10>> @@
  "a0=?" :> <<97, 48, 61, 63>> @@
  "a0=\"a b\" a1=6C7 a2=? a3=(null) a4=\"x\"\n" :> <<97, 48, 61, 34, 97, 32, 98, 34, 32, 97, 49, 61, 54, 67, 55, 32, 97, 50, 61, 63, 32, 97, 51, 61, 40, 110, 117, 108, 108, 41, 32, 97, 52, 61, 34, 120, 34, 10>> @@
  "a0=ffffffffffffffff arch=ffffffffffffffff pid=9223372036854775807 mode=1777777777777777777777 uid=0\n" :> <<97, 48, 61, 102, 102, 102, 102, 102, 102, 102, 102, 102, 102, 102, 102, 102, 102, 102, 102, 32, 97, 114, 99, 104, 61, 102, 102, 102, 102, 102, 102, 102, 102, 102, 102, 102, 102, 102, 102, 102, 102, 32, 112, 105, 100, 61, 57, 50, 50, 51, 51, 55, 50, 48, 51, 54, 56, 53, 52, 55, 55, 53, 56, 48, 55, 32, 109, 111, 100, 101, 61, 49, 55, 55, 55, 55, 55, 55, 55, 55, 55, 55, 55, 55, 55, 55, 55, 55, 55, 55, 55, 55, 55, 32, 117, 105, 100, 61, 48, 10>> @@
  "a=\"b\"" :> <<97, 61, 34, 98, 34>> @@
  "a=b" :> <<97, 61, 98>> @@
  "a=b =" :> <<97, 61, 98, 32, 61>> @@
  "a=b comm=6C73" :> <<97, 61, 98, 32, 99, 111, 109, 109, 61, 54, 67, 55, 51>> @@
  "a=b key=(null)" :> <<97, 61, 98, 32, 107, 101, 121, 61, 40, 110, 117, 108, 108, 41>> @@
  "a=b pid=1" :> <<97, 61, 98, 32, 112, 105, 100, 61, 49>> @@
  "a=b\n" :> <<97, 61, 98, 10>> @@
  "acct" :> <<97, 99, 99, 116>> @@
  "arch" :> <<97, 114, 99, 104>> @@
  "arch=c000003e cap_fi=0 cap_fp=1f cap_fver=2 mode=0100755\n" :> <<97, 114, 99, 104, 61, 99, 48, 48, 48, 48, 48, 51, 101, 32, 99, 97, 112, 95, 102, 105, 61, 48, 32, 99, 97, 112, 95, 102, 112, 61, 49, 102, 32, 99, 97, 112, 95, 102, 118, 101, 114, 61, 50, 32, 109, 111, 100, 101, 61, 48, 49, 48, 48, 55, 53, 53, 10>> @@
  "argc" :> <<97, 114, 103, 99>> @@
  "argc=0 a0=\"whoami\"" :> <<97, 114, 103, 99, 61, 48, 32, 97, 48, 61, 34, 119, 104, 111, 97, 109, 105, 34>> @@
  "argc=0 a0=\"whoami\"\n" :> <<97, 114, 103, 99, 61, 48, 32, 97, 48, 61, 34, 119, 104, 111, 97, 109, 105, 34, 10>> @@
  "argc=2 a0=\"ls\" a1=2D6C a2_len=4 a2[0]=6162\n" :> <<97, 114, 103, 99, 61, 50, 32, 97, 48, 61, 34, 108, 115, 34, 32, 97, 49, 61, 50, 68, 54, 67, 32, 97, 50, 95, 108, 101, 110, 61, 52, 32, 97, 50, 91, 48, 93, 61, 54, 49, 54, 50, 10>> @@
  "argc=2 exit=-2 cap_fe=1 inode=261214 item=0\n" :> <<97, 114, 103, 99, 61, 50, 32, 101, 120, 105, 116, 61, 45, 50, 32, 99, 97, 112, 95, 102, 101, 61, 49, 32, 105, 110, 111, 100, 101, 61, 50, 54, 49, 50, 49, 52, 32, 105, 116, 101, 109, 61, 48, 10>> @@
  "avc:" :> <<97, 118, 99, 58>> @@
  "avc:  denied  { read write } for  pid=2 comm=\"sh\"\n" :> <<97, 118, 99, 58, 32, 32, 100, 101, 110, 105, 101, 100, 32, 32, 123, 32, 114, 101, 97, 100, 32, 119, 114, 105, 116, 101, 32, 125, 32, 102, 111, 114, 32, 32, 112, 105, 100, 61, 50, 32, 99, 111, 109, 109, 61, 34, 115, 104, 34, 10>> @@
  "avc: denied { read } pid=2\n" :> <<97, 118, 99, 58, 32, 100, 101, 110, 105, 101, 100, 32, 123, 32, 114, 101, 97, 100, 32, 125, 32, 112, 105, 100, 61, 50, 10>> @@
  "avc: denied { } for pid=2\n" :> <<97, 118, 99, 58, 32, 100, 101, 110, 105, 101, 100, 32, 123, 32, 125, 32, 102, 111, 114, 32, 112, 105, 100, 61, 50, 10>> @@
  "avc: granted { x } for \n" :> <<97, 118, 99, 58, 32, 103, 114, 97, 110, 116, 101, 100, 32, 123, 32, 120, 32, 125, 32, 102, 111, 114, 32, 10>> @@
  "avc:denied{a b_c\td}for pid=2\n" :> <<97, 118, 99, 58, 100, 101, 110, 105, 101, 100, 123, 97, 32, 98, 95, 99, 9, 100, 125, 102, 111, 114, 32, 112, 105, 100, 61, 50, 10>> @@
  "cap_fe" :> <<99, 97, 112, 95, 102, 101>> @@
  "cap_fi" :> <<99, 97, 112, 95, 102, 105>> @@
  "cap_fp" :> <<99, 97, 112, 95, 102, 112>> @@
  "cap_fver" :> <<99, 97, 112, 95, 102, 118, 101, 114>> @@
  "capability" :> <<99, 97, 112, 97, 98, 105, 108, 105, 116, 121>> @@
  "comm" :> <<99, 111, 109, 109>> @@
  "cwd" :> <<99, 119, 100>> @@
  "cwd=\"/root\" dev=ca:03 tty=(none) comm=6C73 exe=\"/bin/ls\"\n" :> <<99, 119, 100, 61, 34, 47, 114, 111, 111, 116, 34, 32, 100, 101, 118, 61, 99, 97, 58, 48, 51, 32, 116, 116, 121, 61, 40, 110, 111, 110, 101, 41, 32, 99, 111, 109, 109, 61, 54, 67, 55, 51, 32, 101, 120, 101, 61, 34, 47, 98, 105, 110, 47, 108, 115, 34, 10>> @@
  "denied" :> <<100, 101, 110, 105, 101, 100>> @@
  "dev" :> <<100, 101, 118>> @@
  "exe" :> <<101, 120, 101>> @@
  "exit" :> <<101, 120, 105, 116>> @@
  "flags" :> <<102, 108, 97, 103, 115>> @@
  "for" :> <<102, 111, 114>> @@
  "gid" :> <<103, 105, 100>> @@
  "granted" :> <<103, 114, 97, 110, 116, 101, 100>> @@
  "h1" :> <<104, 49>> @@
  "info" :> <<105, 110, 102, 111>> @@
  "inode" :> <<105, 110, 111, 100, 101>> @@
  "item" :> <<105, 116, 101, 109>> @@
  "items" :> <<105, 116, 101, 109, 115>> @@
  "items=2 ppid=2 ses=4294967295 syscall=59 success=yes\n" :> <<105, 116, 101, 109, 115, 61, 50, 32, 112, 112, 105, 100, 61, 50, 32, 115, 101, 115, 61, 52, 50, 57, 52, 57, 54, 55, 50, 57, 53, 32, 115, 121, 115, 99, 97, 108, 108, 61, 53, 57, 32, 115, 117, 99, 99, 101, 115, 115, 61, 121, 101, 115, 10>> @@
  "k" :> <<107>> @@
  "k='a b' e=f|g h=" :> <<107, 61, 39, 97, 32, 98, 39, 32, 101, 61, 102, 124, 103, 32, 104, 61>> @@
  "k='a=\"x'y\" b=c' e= f=\"p q\" g={ a=b c='d e' } h={ x y }\n" :> <<107, 61, 39, 97, 61, 34, 120, 39, 121, 34, 32, 98, 61, 99, 39, 32, 101, 61, 32, 102, 61, 34, 112, 32, 113, 34, 32, 103, 61, 123, 32, 97, 61, 98, 32, 99, 61, 39, 100, 32, 101, 39, 32, 125, 32, 104, 61, 123, 32, 120, 32, 121, 32, 125, 10>> @@
  "key" :> <<107, 101, 121>> @@
  "ls" :> <<108, 115>> @@
  "mode" :> <<109, 111, 100, 101>> @@
  "msg" :> <<109, 115, 103>> @@
  "msg='' uid=0\n" :> <<109, 115, 103, 61, 39, 39, 32, 117, 105, 100, 61, 48, 10>> @@
  "msg='a=? b=6C73 c=x b: y z d=6C73' e=f" :> <<109, 115, 103, 61, 39, 97, 61, 63, 32, 98, 61, 54, 67, 55, 51, 32, 99, 61, 120, 32, 98, 58, 32, 121, 32, 122, 32, 100, 61, 54, 67, 55, 51, 39, 32, 101, 61, 102>> @@
  "msg='a=?'\n" :> <<109, 115, 103, 61, 39, 97, 61, 63, 39, 10>> @@
  "msg='a=\"x'y\"  b=c' uid=0\n" :> <<109, 115, 103, 61, 39, 97, 61, 34, 120, 39, 121, 34, 32, 32, 98, 61, 99, 39, 32, 117, 105, 100, 61, 48, 10>> @@
  "msg='avc:  denied  { read } for  pid=2 name=6C73 x=(null)'\n" :> <<109, 115, 103, 61, 39, 97, 118, 99, 58, 32, 32, 100, 101, 110, 105, 101, 100, 32, 32, 123, 32, 114, 101, 97, 100, 32, 125, 32, 102, 111, 114, 32, 32, 112, 105, 100, 61, 50, 32, 110, 97, 109, 101, 61, 54, 67, 55, 51, 32, 120, 61, 40, 110, 117, 108, 108, 41, 39, 10>> @@
  "msg='op=PAM:session open acct=\"root\" exe=/bin/su hostname=? res=ok'\n" :> <<109, 115, 103, 61, 39, 111, 112, 61, 80, 65, 77, 58, 115, 101, 115, 115, 105, 111, 110, 32, 111, 112, 101, 110, 32, 97, 99, 99, 116, 61, 34, 114, 111, 111, 116, 34, 32, 101, 120, 101, 61, 47, 98, 105, 110, 47, 115, 117, 32, 104, 111, 115, 116, 110, 97, 109, 101, 61, 63, 32, 114, 101, 115, 61, 111, 107, 39, 10>> @@
  "msg='op=login acct=\"root\" res=success'\n" :> <<109, 115, 103, 61, 39, 111, 112, 61, 108, 111, 103, 105, 110, 32, 97, 99, 99, 116, 61, 34, 114, 111, 111, 116, 34, 32, 114, 101, 115, 61, 115, 117, 99, 99, 101, 115, 115, 39, 10>> @@
  "msg=audit(" :> <<109, 115, 103, 61, 97, 117, 100, 105, 116, 40>> @@
  "name" :> <<110, 97, 109, 101>> @@
  "name=(null) nametype=NORMAL key=\"k\" exit=EPERM mode=09\n" :> <<110, 97, 109, 101, 61, 40, 110, 117, 108, 108, 41, 32, 110, 97, 109, 101, 116, 121, 112, 101, 61, 78, 79, 82, 77, 65, 76, 32, 107, 101, 121, 61, 34, 107, 34, 32, 101, 120, 105, 116, 61, 69, 80, 69, 82, 77, 32, 109, 111, 100, 101, 61, 48, 57, 10>> @@
  "nametype" :> <<110, 97, 109, 101, 116, 121, 112, 101>> @@
  "netlabel" :> <<110, 101, 116, 108, 97, 98, 101, 108>> @@
  "netlabel: \n" :> <<110, 101, 116, 108, 97, 98, 101, 108, 58, 32, 10>> @@
  "netlabel: auid=0 old=0\n" :> <<110, 101, 116, 108, 97, 98, 101, 108, 58, 32, 97, 117, 105, 100, 61, 48, 32, 111, 108, 100, 61, 48, 10>> @@
  "node=" :> <<110, 111, 100, 101, 61>> @@
  "node=h1 msg=audit(1.002:3): a=b\n" :> <<110, 111, 100, 101, 61, 104, 49, 32, 109, 115, 103, 61, 97, 117, 100, 105, 116, 40, 49, 46, 48, 48, 50, 58, 51, 41, 58, 32, 97, 61, 98, 10>> @@
  "o" :> <<111>> @@
  "omode" :> <<111, 109, 111, 100, 101>> @@
  "permissive" :> <<112, 101, 114, 109, 105, 115, 115, 105, 118, 101>> @@
  "pid" :> <<112, 105, 100>> @@
  "pid=1" :> <<112, 105, 100, 61, 49>> @@
  "pid=1 " :> <<112, 105, 100, 61, 49, 32>> @@
  "pid=1  uid=0\n" :> <<112, 105, 100, 61, 49, 32, 32, 117, 105, 100, 61, 48, 10>> @@
  "pid=1 a=b" :> <<112, 105, 100, 61, 49, 32, 97, 61, 98>> @@
  "pid=1 a=b\n" :> <<112, 105, 100, 61, 49, 32, 97, 61, 98, 10>> @@
  "pid=1 msg='op=x res=ok' uid=0\n" :> <<112, 105, 100, 61, 49, 32, 109, 115, 103, 61, 39, 111, 112, 61, 120, 32, 114, 101, 115, 61, 111, 107, 39, 32, 117, 105, 100, 61, 48, 10>> @@
  "pid=1 subj==/usr/sbin/ntpd (enforce) key=(null)\n" :> <<112, 105, 100, 61, 49, 32, 115, 117, 98, 106, 61, 61, 47, 117, 115, 114, 47, 115, 98, 105, 110, 47, 110, 116, 112, 100, 32, 40, 101, 110, 102, 111, 114, 99, 101, 41, 32, 107, 101, 121, 61, 40, 110, 117, 108, 108, 41, 10>> @@
  "pid=1 uid=0 exe=\"/bin/sh\"\n" :> <<112, 105, 100, 61, 49, 32, 117, 105, 100, 61, 48, 32, 101, 120, 101, 61, 34, 47, 98, 105, 110, 47, 115, 104, 34, 10>> @@
  "pid=1\nrest" :> <<112, 105, 100, 61, 49, 10, 114, 101, 115, 116>> @@
  "policy loaded " :> <<112, 111, 108, 105, 99, 121, 32, 108, 111, 97, 100, 101, 100, 32>> @@
  "policy loaded auid=0\n" :> <<112, 111, 108, 105, 99, 121, 32, 108, 111, 97, 100, 101, 100, 32, 97, 117, 105, 100, 61, 48, 10>> @@
  "ppid" :> <<112, 112, 105, 100>> @@
  "proctitle" :> <<112, 114, 111, 99, 116, 105, 116, 108, 101>> @@
  "proctitle=2F62696E key=(null) x=?\n" :> <<112, 114, 111, 99, 116, 105, 116, 108, 101, 61, 50, 70, 54, 50, 54, 57, 54, 69, 32, 107, 101, 121, 61, 40, 110, 117, 108, 108, 41, 32, 120, 61, 63, 10>> @@
  "proctitle=6C73\n" :> <<112, 114, 111, 99, 116, 105, 116, 108, 101, 61, 54, 67, 55, 51, 10>> @@
  "ses" :> <<115, 101, 115>> @@
  "subj" :> <<115, 117, 98, 106>> @@
  "subj=/{,usr/}sbin/dhclient key=(null)\n" :> <<115, 117, 98, 106, 61, 47, 123, 44, 117, 115, 114, 47, 125, 115, 98, 105, 110, 47, 100, 104, 99, 108, 105, 101, 110, 116, 32, 107, 101, 121, 61, 40, 110, 117, 108, 108, 41, 10>> @@
  "subj=61zz (a)\n" :> <<115, 117, 98, 106, 61, 54, 49, 122, 122, 32, 40, 97, 41, 10>> @@
  "subj== uid=0\n" :> <<115, 117, 98, 106, 61, 61, 32, 117, 105, 100, 61, 48, 10>> @@
  "subj=system_u:object_r:x_t:s0 c={ a b } d='q r'\n" :> <<115, 117, 98, 106, 61, 115, 121, 115, 116, 101, 109, 95, 117, 58, 111, 98, 106, 101, 99, 116, 95, 114, 58, 120, 95, 116, 58, 115, 48, 32, 99, 61, 123, 32, 97, 32, 98, 32, 125, 32, 100, 61, 39, 113, 32, 114, 39, 10>> @@
  "subj=unconfined (x_y) uid=0\n" :> <<115, 117, 98, 106, 61, 117, 110, 99, 111, 110, 102, 105, 110, 101, 100, 32, 40, 120, 95, 121, 41, 32, 117, 105, 100, 61, 48, 10>> @@
  "success" :> <<115, 117, 99, 99, 101, 115, 115>> @@
  "syscall" :> <<115, 121, 115, 99, 97, 108, 108>> @@
  "tty" :> <<116, 116, 121>> @@
  "tty " :> <<116, 116, 121, 32>> @@
  "tty pid=1 data=6C73\n" :> <<116, 116, 121, 32, 112, 105, 100, 61, 49, 32, 100, 97, 116, 97, 61, 54, 67, 55, 51, 10>> @@
  "type=" :> <<116, 121, 112, 101, 61>> @@
  "type=EOE" :> <<116, 121, 112, 101, 61, 69, 79, 69>> @@
  "type=EOE msg=audit(1.002:3) a=b\n" :> <<116, 121, 112, 101, 61, 69, 79, 69, 32, 109, 115, 103, 61, 97, 117, 100, 105, 116, 40, 49, 46, 48, 48, 50, 58, 51, 41, 32, 97, 61, 98, 10>> @@
  "uid" :> <<117, 105, 100>> @@
  "unknown family" :> <<117, 110, 107, 110, 111, 119, 110, 32, 102, 97, 109, 105, 108, 121>> @@
  "uring_op" :> <<117, 114, 105, 110, 103, 95, 111, 112>> @@
  "whoami" :> <<119, 104, 111, 97, 109, 105>> @@
  "x" :> <<120>> @@
  "x y\n" :> <<120, 32, 121, 10>> @@
  "zz" :> <<122, 122>> @@
  "{" :> <<123>> @@
  "{ " :> <<123, 32>> @@
  "}" :> <<125>>
\* END LitTab

\* the bytes of a string literal
Lit(s) == lit[s]

NL == <<10>>
GS == <<29>>

\* bytes i .. j-1 of s
Slice(s, i, j) == SubSeq(s, i, j - 1)

None == <<>>
Some(x) == <<x>>

-----------------------------------------------------------------------------
(* Character classes *)

Digit == 48..57
Alpha == (65..90) \cup (97..122)
AlphaNum == Alpha \cup Digit
HexDigit == Digit \cup (65..70) \cup (97..102)
OctDigit == 48..55
Byte == 0..255

\* fn is_safe_chr
SafeChr == {33} \cup (35..126)
\* fn is_safe_unquoted_chr
SafeUnquotedChr == (35..38) \cup (40..122) \cup {33, 124, 126}
\* fn is_sep
Sep == {32, 29, 10}
\* nom space0 / space1: space or tab
Space == {32, 9}

-----------------------------------------------------------------------------
(* Fixed-width unsigned arithmetic on 16-bit limbs *)

Base == 2^16

ZeroLimbs(n) == [k \in 1..n |-> 0]

\* a small number as an n-limb integer
Small(v, n) == [k \in 1..n |-> IF k = 1 THEN v ELSE 0]
U16(v) == Small(v, 1)
U32(v) == Small(v, 2)
U64(v) == Small(v, 4)

IsZero(x) == \A k \in 1..Len(x) : x[k] = 0

RECURSIVE MulAdd(_, _, _, _)
\* limbs k.. of x*m + c, with the carry out of the top limb
MulAdd(x, m, c, k) ==
    IF k > Len(x) THEN [limbs |-> <<>>, carry |-> c]
    ELSE LET t == x[k] * m + c
             r == MulAdd(x, m, t \div Base, k + 1)
         IN  [limbs |-> <<t % Base>> \o r.limbs, carry |-> r.carry]

RECURSIVE AddLimbs(_, _, _, _)
\* limbs k.. of x + y + c (same width), with the carry out
AddLimbs(x, y, c, k) ==
    IF k > Len(x) THEN [limbs |-> <<>>, carry |-> c]
    ELSE LET t == x[k] + y[k] + c
             r == AddLimbs(x, y, t \div Base, k + 1)
         IN  [limbs |-> <<t % Base>> \o r.limbs, carry |-> r.carry]

RECURSIVE DivSmall(_, _, _, _)
\* x \div d and x % d for a small d: long division from limb k down, rem carried in
DivSmall(x, d, k, rem) ==
    IF k = 0 THEN [q |-> <<>>, r |-> rem]
    ELSE LET t == rem * Base + x[k]
             lo == DivSmall(x, d, k - 1, t % d)
         IN  [q |-> lo.q \o <<t \div d>>, r |-> lo.r]

Quot(x, d) == DivSmall(x, d, Len(x), 0).q
Rem(x, d) == DivSmall(x, d, Len(x), 0).r

RECURSIVE LimbsLess(_, _, _)
\* x < y, compared from limb k down (same width)
LimbsLess(x, y, k) ==
    IF k = 0 THEN FALSE
    ELSE IF x[k] # y[k] THEN x[k] < y[k]
    ELSE LimbsLess(x, y, k - 1)

Less(x, y) == LimbsLess(x, y, Len(x))

\* widen x to n limbs
Widen(x, n) == [k \in 1..n |-> IF k <= Len(x) THEN x[k] ELSE 0]

DigitVal(c) == IF c \in Digit THEN c - 48 ELSE IF c \in 97..102 THEN c - 87 ELSE c - 55

RECURSIVE ParseRadix(_, _, _, _)
\* checked_mul(radix) then checked_add(digit) over digits k.. of ds
ParseRadix(ds, radix, acc, k) ==
    IF k > Len(ds) THEN [ok |-> TRUE, v |-> acc]
    ELSE LET r == MulAdd(acc, radix, DigitVal(ds[k]), 1)
         IN  IF r.carry # 0 THEN [ok |-> FALSE, v |-> acc]
             ELSE ParseRadix(ds, radix, r.limbs, k + 1)

RECURSIVE DecDigits(_)
\* the decimal digits of x, most significant first, none for zero
DecDigits(x) ==
    IF IsZero(x) THEN <<>>
    ELSE DecDigits(Quot(x, 10)) \o <<48 + Rem(x, 10)>>

\* Display of an unsigned integer: "{}"
FmtInt(x) == IF IsZero(x) THEN <<48>> ELSE DecDigits(x)

\* "{:03}": zero-padded to at least three digits
FmtInt03(x) ==
    LET d == FmtInt(x)
    IN  IF Len(d) >= 3 THEN d ELSE [k \in 1..(3 - Len(d)) |-> 48] \o d

\* <uN as FromStr>::from_str: optional '+', at least one digit, no overflow
FromStrUnsigned(ds, n) ==
    LET body == IF Len(ds) > 0 /\ ds[1] = 43 THEN Tail(ds) ELSE ds
    IN  IF Len(body) = 0 \/ \E k \in 1..Len(body) : body[k] \notin Digit
        THEN [ok |-> FALSE, v |-> ZeroLimbs(n)]
        ELSE ParseRadix(body, 10, ZeroLimbs(n), 1)

-----------------------------------------------------------------------------
(* nom combinators used by the grammar *)

Ok(p, v) == [ok |-> TRUE, pos |-> p, val |-> v]
Fail == [ok |-> FALSE, pos |-> 0, val |-> <<>>]

\* tag(t)
tag(t, s, i) ==
    IF i + Len(t) - 1 <= Len(s) /\ SubSeq(s, i, i + Len(t) - 1) = t
    THEN Ok(i + Len(t), t) ELSE Fail

RECURSIVE RunEnd(_, _, _)
\* the index after the longest run of bytes of class S that starts at i
RunEnd(S, s, i) == IF i <= Len(s) /\ s[i] \in S THEN RunEnd(S, s, i + 1) ELSE i

\* take_while(S), is_not, take_till: zero or more bytes of S
take_while(S, s, i) == LET e == RunEnd(S, s, i) IN Ok(e, Slice(s, i, e))

\* take_while1(S), is_a, alpha1, digit1, space1: one or more bytes of S
take_while1(S, s, i) ==
    LET e == RunEnd(S, s, i) IN IF e = i THEN Fail ELSE Ok(e, Slice(s, i, e))

\* opt(tag(t)): the position after t when t is there, i otherwise
opt_tag(t, s, i) == IF tag(t, s, i).ok THEN i + Len(t) ELSE i

\* nom::character::complete::{u16, u32, u64}: decimal digits, Error on overflow
dec_uint(s, i, n) ==
    LET e == RunEnd(Digit, s, i)
        r == ParseRadix(Slice(s, i, e), 10, ZeroLimbs(n), 1)
    IN  IF e = i \/ ~r.ok THEN Fail ELSE Ok(e, r.v)

\* str::split_once(c): the text before and after the first c
SplitOnce(s, c) ==
    LET k == RunEnd(Byte \ {c}, s, 1)
    IN  IF k > Len(s) THEN None ELSE Some(<<Slice(s, 1, k), Slice(s, k + 1, Len(s) + 1)>>)

\* sequencing: what F recognizes after r, with r's result at hand
Then(r, F(_)) == IF r.ok THEN F(r) ELSE Fail

\* alt((a, b))
Alt(a, b) == IF a.ok THEN a ELSE b

\* map(p, f)
Mapped(r, F(_)) == IF r.ok THEN Ok(r.pos, F(r.val)) ELSE Fail

\* opt(p), from position i
Opt(r, i) == IF r.ok THEN Ok(r.pos, Some(r.val)) ELSE Ok(i, None)

\* terminated(p, q)
Terminated(r, Q(_)) == Then(r, LAMBDA a : Then(Q(a.pos), LAMBDA b : Ok(b.pos, a.val)))

\* G of r's result when r succeeded, d otherwise
IfOk(r, G(_), d) == IF r.ok THEN G(r) ELSE d

\* the value an Option holds, at position p
OkSome(p, o) == IF o = None THEN Fail ELSE Ok(p, o[1])

-----------------------------------------------------------------------------
(* Constant tables generated at build time from the audit dictionaries *)

\* message-type name and numeric id
EventTable == {
    <<Lit("LOGIN"), 1006>>, <<Lit("USER_ACCT"), 1101>>, <<Lit("SYSCALL"), 1300>>,
    <<Lit("PATH"), 1302>>, <<Lit("SOCKADDR"), 1306>>, <<Lit("EXECVE"), 1309>>,
    <<Lit("TTY"), 1319>>, <<Lit("EOE"), 1320>>, <<Lit("AVC"), 1400>>,
    <<Lit("MAC_POLICY_LOAD"), 1403>>, <<Lit("MAC_UNLBL_ALLOW"), 1406>> }

\* EVENT_IDS.get(name)
EVENT_IDS(name) ==
    IF \E e \in EventTable : e[1] = name
    THEN Some(U32((CHOOSE e \in EventTable : e[1] = name)[2])) ELSE None

\* EVENT_NAMES.get(id)
EVENT_NAMES(id) ==
    IF \E e \in EventTable : U32(e[2]) = id
    THEN Some((CHOOSE e \in EventTable : U32(e[2]) = id)[1]) ELSE None

\* the MessageType::NAME constants
MessageTypeOf(name) == EVENT_IDS(Lit(name))[1]

-----------------------------------------------------------------------------
(* EventID: src/event_id.rs *)

\* impl Display for EventID: "{sec}.{msec:03}:{seq}"
EventID_fmt(e) ==
    LET sec == Quot(e.timestamp, 1000)
        msec == U64(Rem(e.timestamp, 1000))
    IN  FmtInt(sec) \o Lit(".") \o FmtInt03(msec) \o Lit(":") \o FmtInt(e.sequence)

\* a * 1000 + b on u64: panics on overflow when the build checks overflow, wraps otherwise
MulAddTimestamp(sec, msec, checks) ==
    LET m == MulAdd(sec, 1000, 0, 1)
        a == AddLimbs(m.limbs, msec, 0, 1)
        over == m.carry # 0 \/ a.carry # 0
    IN  [overflow |-> over, panic |-> over /\ checks, v |-> a.limbs]

\* EventID::from_str with the milliseconds dropped: timestamp = sec * 1000
EventID_from_str_no_msec(s, checks) ==
    LET a == SplitOnce(s, 46)
        b == SplitOnce(a[1][2], 58)
        sec == FromStrUnsigned(a[1][1], 4)
        seq == FromStrUnsigned(b[1][2], 2)
        ts == MulAddTimestamp(sec.v, ZeroLimbs(4), checks)
    IN  IF a = None \/ b = None \/ ~sec.ok \/ ~seq.ok THEN [t |-> "Err", e |-> "Number"]
        ELSE [t |-> "Ok", v |-> [timestamp |-> ts.v, sequence |-> seq.v]]

\* impl FromStr for EventID
EventID_from_str(s, checks) ==
    LET a == SplitOnce(s, 46)
        b == SplitOnce(a[1][2], 58)
        sec == FromStrUnsigned(a[1][1], 4)
        msec == FromStrUnsigned(b[1][1], 4)
        seq == FromStrUnsigned(b[1][2], 2)
        mul == MulAdd(sec.v, 1000, 0, 1)
        ts == MulAddTimestamp(sec.v, msec.v, checks)
    IN  IF a = None THEN [t |-> "Err", e |-> "Format(.)"]
        ELSE IF b = None THEN [t |-> "Err", e |-> "Format(:)"]
        ELSE IF ~sec.ok THEN [t |-> "Err", e |-> "Number"]
        ELSE IF mul.carry # 0 /\ checks THEN [t |-> "Panic"]
        ELSE IF ~msec.ok THEN [t |-> "Err", e |-> "Number"]
        ELSE IF ts.panic THEN [t |-> "Panic"]
        ELSE IF ~seq.ok THEN [t |-> "Err", e |-> "Number"]
        ELSE [t |-> "Ok", v |-> [timestamp |-> ts.v, sequence |-> seq.v]]

-----------------------------------------------------------------------------
(* MessageType: src/message_type.rs *)

\* impl Display for MessageType
MessageType_fmt(m) ==
    IF EVENT_NAMES(m) # None THEN EVENT_NAMES(m)[1]
    ELSE Lit("UNKNOWN[") \o FmtInt(m) \o Lit("]")

\* MessageType::from_str reading the number of UNKNOWN[n] as a 16-bit integer
MessageType_from_str_u16(s) ==
    LET p == Lit("UNKNOWN[")
        number == Slice(s, Len(p) + 1, Len(s))
        id == FromStrUnsigned(number, 1)
    IN  IF EVENT_IDS(s) # None THEN [t |-> "Ok", v |-> EVENT_IDS(s)[1]]
        ELSE IF ~tag(p, s, 1).ok \/ s[Len(s)] # 93 \/ ~id.ok THEN [t |-> "Err", e |-> "Number"]
        ELSE [t |-> "Ok", v |-> Widen(id.v, 2)]

\* impl FromStr for MessageType
MessageType_from_str(s) ==
    LET p == Lit("UNKNOWN[")
        hasPrefix == tag(p, s, 1).ok
        afterPrefix == Slice(s, Len(p) + 1, Len(s) + 1)
        hasSuffix == Len(afterPrefix) > 0 /\ afterPrefix[Len(afterPrefix)] = 93
        number == Slice(afterPrefix, 1, Len(afterPrefix))
        id == FromStrUnsigned(number, 2)
    IN  IF EVENT_IDS(s) # None THEN [t |-> "Ok", v |-> EVENT_IDS(s)[1]]
        ELSE IF ~hasPrefix THEN [t |-> "Err", e |-> "Unknown"]
        ELSE IF ~hasSuffix THEN [t |-> "Err", e |-> "MalformedUnknown"]
        ELSE IF ~id.ok THEN [t |-> "Err", e |-> "Number"]
        ELSE [t |-> "Ok", v |-> id.v]

\* is_multipart with the range's upper end included: 1300..=2100
is_multipart_inclusive(m) ==
    (~Less(m, U32(1300)) /\ ~Less(U32(2100), m)) \/ m = MessageTypeOf("LOGIN")

\* MessageType::is_multipart
is_multipart(m) ==
    (~Less(m, U32(1300)) /\ Less(m, U32(2100))) \/ m = MessageTypeOf("LOGIN")

-----------------------------------------------------------------------------
(* Parser, header: src/parser.rs *)

\* the bytes of type names: alphanumeric1 or "_"
TypeNameChr == AlphaNum \cup {95}

\* fn parse_type
parse_type(s, i) ==
    Then(tag(Lit("type="), s, i), LAMBDA t :
        Alt(Then(take_while1(TypeNameChr, s, t.pos), LAMBDA name :
                OkSome(name.pos, EVENT_IDS(name.val))),
            Then(tag(Lit("UNKNOWN["), s, t.pos), LAMBDA u :
            Then(dec_uint(s, u.pos, 2), LAMBDA n :
            Then(tag(Lit("]"), s, n.pos), LAMBDA c : Ok(c.pos, n.val))))))

\* fn parse_node
parse_node(s, i) ==
    Then(tag(Lit("node="), s, i), LAMBDA t : take_while1(Byte \ {32, 9, 13, 10}, s, t.pos))

\* EventID { timestamp: 1000 * sec + msec, sequence }: the wrapped sum, and whether
\* the arithmetic overflows
MsgId(ts, sequence) == [timestamp |-> ts.v, sequence |-> sequence, overflow |-> ts.overflow]

\* fn parse_msgid
parse_msgid(s, i) ==
    Then(tag(Lit("msg=audit("), s, i), LAMBDA t :
    Then(dec_uint(s, t.pos, 4), LAMBDA sec :
    Then(tag(Lit("."), s, sec.pos), LAMBDA dot :
    Then(dec_uint(s, dot.pos, 4), LAMBDA msec :
    Then(tag(Lit(":"), s, msec.pos), LAMBDA col :
    Then(dec_uint(s, col.pos, 2), LAMBDA seq :
    Then(tag(Lit("):"), s, seq.pos), LAMBDA close :
        Ok(RunEnd(Space, s, close.pos),
           MsgId(MulAddTimestamp(sec.val, msec.val, FALSE), seq.val)))))))))

\* fn parse_header
parse_header(s, i) ==
    Then(Opt(Terminated(parse_node(s, i), LAMBDA p : take_while1({32}, s, p)), i),
         LAMBDA node :
    Then(Terminated(parse_type(s, node.pos), LAMBDA p : take_while1({32}, s, p)),
         LAMBDA ty :
    Then(parse_msgid(s, ty.pos), LAMBDA id :
        Ok(id.pos, [node |-> node.val, ty |-> ty.val, id |-> id.val]))))

-----------------------------------------------------------------------------
(* Keys: src/key.rs and the key recognizers of src/parser.rs *)

\* const COMMON: the names of the Common keys, in table order
COMMON == <<
    Lit("arch"), Lit("argc"), Lit("cap_fe"), Lit("cap_fi"), Lit("cap_fp"),
    Lit("cap_fver"), Lit("comm"), Lit("cwd"), Lit("dev"), Lit("exe"), Lit("exit"),
    Lit("inode"), Lit("item"), Lit("items"), Lit("key"), Lit("mode"), Lit("msg"),
    Lit("name"), Lit("nametype"), Lit("pid"), Lit("ppid"), Lit("ses"), Lit("subj"),
    Lit("success"), Lit("syscall"), Lit("tty") >>

RECURSIVE BytesLess(_, _, _)
\* a < b in the order of byte slices, compared from index k
BytesLess(a, b, k) ==
    IF k > Len(b) THEN FALSE
    ELSE IF k > Len(a) THEN TRUE
    ELSE IF a[k] # b[k] THEN a[k] < b[k]
    ELSE BytesLess(a, b, k + 1)

RECURSIVE BinarySearch(_, _, _, _)
\* slice::binary_search_by_key over tab[lo .. hi-1]: the index found, or 0
BinarySearch(tab, x, lo, hi) ==
    IF lo >= hi THEN 0
    ELSE LET mid == lo + (hi - lo) \div 2
         IN  IF tab[mid] = x THEN mid
             ELSE IF BytesLess(tab[mid], x, 1) THEN BinarySearch(tab, x, mid + 1, hi)
             ELSE BinarySearch(tab, x, lo, mid)

\* impl TryFrom<&[u8]> for Common: the table index, or 0 for "unknown key"
Common_try_from(name) == BinarySearch(COMMON, name, 1, Len(COMMON) + 1)

KeyName(n) == [t |-> "Name", n |-> n]
KeyNameUID(n) == [t |-> "NameUID", n |-> n]
KeyNameGID(n) == [t |-> "NameGID", n |-> n]
KeyCommon(c) == [t |-> "Common", c |-> c]
KeyArg(x, y) == [t |-> "Arg", x |-> x, y |-> y]
KeyArgLen(x) == [t |-> "ArgLen", x |-> x]

EndsWith(s, suffix) ==
    Len(s) >= Len(suffix) /\ SubSeq(s, Len(s) - Len(suffix) + 1, Len(s)) = suffix

\* the bytes after the first one in a key name: alphanumeric1 or is_a("-_")
KeyChr == AlphaNum \cup {45, 95}

\* the recognized text of a key name: alpha1, then alphanumeric or "-_" runs
key_name(s, i) ==
    LET a == RunEnd(Alpha, s, i)
    IN  IF a = i THEN Fail ELSE take_while(KeyChr, s, i)

\* the Key of a recognized name; c is Common::try_from(name)
KeyOf(c, name) ==
    IF c # 0 THEN KeyCommon(c)
    ELSE IF EndsWith(name, Lit("uid")) THEN KeyNameUID(name)
    ELSE IF EndsWith(name, Lit("gid")) THEN KeyNameGID(name)
    ELSE KeyName(name)

\* fn parse_key
parse_key(s, i) ==
    Then(key_name(s, i), LAMBDA r : Ok(r.pos, KeyOf(Common_try_from(r.val), r.val)))

\* fn parse_key_a_x_len
parse_key_a_x_len(s, i) ==
    Then(tag(Lit("a"), s, i), LAMBDA a :
    Then(dec_uint(s, a.pos, 2), LAMBDA x :
    Then(tag(Lit("_len"), s, x.pos), LAMBDA l : Ok(l.pos, KeyArgLen(x.val)))))

\* fn parse_key_a_xy
parse_key_a_xy(s, i) ==
    Then(tag(Lit("a"), s, i), LAMBDA a :
    Then(dec_uint(s, a.pos, 2), LAMBDA x :
    Then(tag(Lit("["), s, x.pos), LAMBDA o :
    Then(dec_uint(s, o.pos, 1), LAMBDA y :
    Then(tag(Lit("]"), s, y.pos), LAMBDA c : Ok(c.pos, KeyArg(x.val, Some(y.val))))))))

\* fn parse_key_a_x
parse_key_a_x(s, i) ==
    Then(tag(Lit("a"), s, i), LAMBDA a :
    Then(dec_uint(s, a.pos, 2), LAMBDA x : Ok(x.pos, KeyArg(x.val, None))))

\* fn parse_identifier: [A-Za-z_][A-Za-z0-9_]*
parse_identifier(s, i) ==
    IF i <= Len(s) /\ s[i] \in Alpha \cup {95} THEN take_while(TypeNameChr, s, i) ELSE Fail

\* the key of one pair, by message type, with the "=" after it (parse_kv, first half)
kv_key(s, i, ty) ==
    Terminated(
        IF /\ ty = MessageTypeOf("EXECVE")
           /\ i <= Len(s) /\ s[i] = 97 /\ ~tag(Lit("argc"), s, i).ok
        THEN Alt(parse_key_a_x_len(s, i), Alt(parse_key_a_xy(s, i), parse_key_a_x(s, i)))
        ELSE IF ty = MessageTypeOf("SYSCALL") THEN Alt(parse_key_a_x(s, i), parse_key(s, i))
        ELSE parse_key(s, i),
        LAMBDA p : tag(Lit("="), s, p))

-----------------------------------------------------------------------------
(* Values: src/value.rs and the value recognizers of src/parser.rs *)

\* a byte slice: where it starts, how long it is, the bytes it denotes.
\* The input line occupies the addresses 1 .. Len(raw).
Sl(s, i, j) == [addr |-> i, len |-> j - i, tok |-> Slice(s, i, j)]

Empty == [t |-> "Empty"]
Str(sl, q) == [t |-> "Str", sl |-> sl, q |-> q]
Owned(bytes) == [t |-> "Owned", bytes |-> bytes]
NumHex(v) == [t |-> "Number", n |-> [b |-> "Hex", neg |-> FALSE, v |-> v]]
NumOct(v) == [t |-> "Number", n |-> [b |-> "Oct", neg |-> FALSE, v |-> v]]
NumDec(neg, v) == [t |-> "Number", n |-> [b |-> "Dec", neg |-> neg /\ ~IsZero(v), v |-> v]]
List(vs) == [t |-> "List", vs |-> vs]
Map(kvs) == [t |-> "Map", kvs |-> kvs]

\* peek(take_while1(is_sep))
SepFollows(s, i) == i <= Len(s) /\ s[i] \in Sep

\* terminated(p, peek(take_while1(is_sep)))
BeforeSep(r, s) == IF r.ok /\ SepFollows(s, r.pos) THEN r ELSE Fail

\* a recognized range of the input: from .. e-1
Range(e, from) == Ok(e, <<from, e>>)

\* the range from .. e-1 with the closing tag t after it
Closed(e, t, s, from) == IF tag(t, s, e).ok THEN Ok(e + Len(t), <<from, e>>) ELSE Fail

\* map(p, |s| Value::Str(s, quote)) for a p that gives a range
Quoted(r, s, quote) ==
    IF r.ok THEN Ok(r.pos, Str(Sl(s, r.val[1], r.val[2]), quote)) ELSE Fail

\* delimited(tag(open), take_while(S), tag(close)): the range of the content
delimited(S, open, close, s, i) ==
    Then(tag(open, s, i), LAMBDA o : Closed(RunEnd(S, s, o.pos), close, s, o.pos))

\* fn parse_str_sq
parse_str_sq(s, i) == delimited(Byte \ {39}, Lit("'"), Lit("'"), s, i)
\* fn parse_str_dq_safe
parse_str_dq_safe(s, i) == delimited(SafeChr, Lit("\""), Lit("\""), s, i)
\* fn parse_str_dq
parse_str_dq(s, i) == delimited(Byte \ {34}, Lit("\""), Lit("\""), s, i)

RECURSIVE FindSub(_, _, _)
\* take_until(t): the index of the first occurrence of t at or after i, 0 if none
FindSub(t, s, i) ==
    IF i + Len(t) - 1 > Len(s) THEN 0
    ELSE IF tag(t, s, i).ok THEN i
    ELSE FindSub(t, s, i + 1)

\* the range from .. e-1 that take_until found before a two-byte tag, if it found one
Found(e, from) == IF e = 0 THEN Fail ELSE Ok(e + 2, <<from, e>>)

\* fn parse_str_braced
parse_str_braced(s, i) ==
    Then(tag(Lit("{ "), s, i), LAMBDA o : Found(FindSub(Lit(" }"), s, o.pos), o.pos))

\* fn parse_str_unq
parse_str_unq(s, i) == Range(RunEnd(SafeChr, s, i), i)
\* fn parse_str_unq_inside_sq
parse_str_unq_inside_sq(s, i) == Range(RunEnd(SafeChr \ {39}, s, i), i)

\* one name=value of parse_kv_sq (inner = "sq") or parse_kv_braced (inner = "braced")
kv_text_item(s, i, inner) ==
    Then(key_name(s, i), LAMBDA k :
    Then(tag(Lit("="), s, k.pos), LAMBDA e :
        IF inner = "sq"
        THEN Alt(parse_str_dq(s, e.pos),
             Alt(parse_str_braced(s, e.pos), parse_str_unq_inside_sq(s, e.pos)))
        ELSE Alt(parse_str_sq(s, e.pos),
             Alt(parse_str_dq(s, e.pos), parse_str_unq(s, e.pos)))))

RECURSIVE kv_text_more(_, _, _)
\* separated_list0(tag(" "), item) after an item: the position it stops at
kv_text_more(s, i, inner) ==
    IfOk(Then(tag(Lit(" "), s, i), LAMBDA sp : kv_text_item(s, sp.pos, inner)),
         LAMBDA f : kv_text_more(s, f.pos, inner), i)

\* recognize(separated_list0(tag(" "), item)): the position it stops at
kv_text_list(s, i, inner) ==
    IfOk(kv_text_item(s, i, inner), LAMBDA f : kv_text_more(s, f.pos, inner), i)

\* fn parse_kv_sq
parse_kv_sq(s, i) ==
    Then(tag(Lit("'"), s, i), LAMBDA o :
        Closed(kv_text_list(s, o.pos, "sq"), Lit("'"), s, o.pos))

\* fn parse_kv_braced
parse_kv_braced(s, i) ==
    Then(tag(Lit("{ "), s, i), LAMBDA o :
        Closed(kv_text_list(s, o.pos, "braced"), Lit(" }"), s, o.pos))

\* the bytes a run of hex digit pairs encodes
DecodeHex(h) == [k \in 1..(Len(h) \div 2) |-> 16 * DigitVal(h[2 * k - 1]) + DigitVal(h[2 * k])]

\* many1_count(take_while_m_n(2, 2, is_hex_digit)) up to e, before a separator, decoded
HexPairs(e, s, i) ==
    IF e > i /\ SepFollows(s, e) THEN Ok(e, Owned(DecodeHex(Slice(s, i, e)))) ELSE Fail

\* fn parse_encoded
parse_encoded(s, i) ==
    Alt(Quoted(parse_str_dq_safe(s, i), s, "Double"),
    Alt(HexPairs(i + 2 * ((RunEnd(HexDigit, s, i) - i) \div 2), s, i),
        Then(BeforeSep(Alt(tag(Lit("(null)"), s, i), tag(Lit("?"), s, i)), s),
             LAMBDA n : Ok(n.pos, Empty))))

\* map_res: u64::from_str_radix gave r; the Number at position p, or the Error
FromStrRadix(r, p, Num(_)) == IF r.ok THEN Ok(p, Num(r.v)) ELSE Fail

\* digits of class S before a separator, read in the given radix as u64
parse_radix(S, radix, s, i, Num(_)) ==
    Then(BeforeSep(take_while1(S, s, i), s), LAMBDA d :
        FromStrRadix(ParseRadix(d.val, radix, ZeroLimbs(4), 1), d.pos, Num))

\* fn parse_hex
parse_hex(s, i) == parse_radix(HexDigit, 16, s, i, NumHex)

\* fn parse_oct
parse_oct(s, i) == parse_radix(OctDigit, 8, s, i, NumOct)

\* nom::character::complete::i64: optional sign, decimal digits, Error on overflow
dec_i64(s, i) ==
    LET signed == i <= Len(s) /\ s[i] \in {43, 45}
        neg == signed /\ s[i] = 45
    IN  Then(dec_uint(s, IF signed THEN i + 1 ELSE i, 4), LAMBDA m :
            IF m.val[4] < 2^15 \/ (neg /\ m.val = <<0, 0, 0, 2^15>>)
            THEN Ok(m.pos, [neg |-> neg, v |-> m.val]) ELSE Fail)

\* fn parse_dec
parse_dec(s, i) ==
    Then(BeforeSep(dec_i64(s, i), s), LAMBDA r : Ok(r.pos, NumDec(r.val.neg, r.val.v)))

\* the subj salvage without the optional " (ident)": opt(tag("=")), parse_str_unq
subj_text_unq(s, i) ==
    Then(parse_str_unq(s, opt_tag(Lit("="), s, i)), LAMBDA u : Range(u.pos, i))

\* recognize(tuple((opt(tag("=")), parse_str_unq,
\*                  opt(delimited(tag(" ("), parse_identifier, tag(")"))))))
subj_text(s, i) ==
    Then(parse_str_unq(s, opt_tag(Lit("="), s, i)), LAMBDA u :
        IfOk(Then(tag(Lit(" ("), s, u.pos), LAMBDA o :
             Then(parse_identifier(s, o.pos), LAMBDA id : tag(Lit(")"), s, id.pos))),
             LAMBDA c : Range(c.pos, i), Range(u.pos, i)))

\* the salvage branches of parse_unspec_value, by (ty, name)
unspec_salvage(s, i, ty, name) ==
    IF name = Lit("subj") THEN Quoted(subj_text(s, i), s, "None")
    ELSE IF ty = MessageTypeOf("AVC") /\ name = Lit("info")
    THEN Quoted(parse_str_dq(s, i), s, "None")
    ELSE IF ty = MessageTypeOf("SOCKADDR") /\ name = Lit("SADDR")
    THEN Quoted(Then(tag(Lit("unknown family"), s, i), LAMBDA r :
                    Range(RunEnd(Byte \ Sep, s, r.pos), i)), s, "None")
    ELSE Fail

\* fn parse_unspec_value
parse_unspec_value(s, i, ty, name) ==
    Alt(unspec_salvage(s, i, ty, name),
    Alt(Quoted(Then(take_while1(SafeUnquotedChr, s, i), LAMBDA u : Range(u.pos, i)),
               s, "None"),
    Alt(Quoted(parse_kv_sq(s, i), s, "Single"),
    Alt(Quoted(parse_str_sq(s, i), s, "Single"),
    Alt(Quoted(parse_str_dq(s, i), s, "Double"),
    Alt(Quoted(parse_kv_braced(s, i), s, "Braces"),
    Alt(Quoted(parse_str_braced(s, i), s, "Braces"),
        Ok(i, Empty))))))))

\* the typed recognizer alone, without the parse_unspec_value alternative
or_nothing(first, s, i, ty, name) == first

\* alt((first, |input| parse_unspec_value(input, ty, name)))
or_unspec(first, s, i, ty, name) == Alt(first, parse_unspec_value(s, i, ty, name))

\* alt((recognize(tuple((space1, parse_key, tag("=")))), tag("'"))) at rest = r
words_break(s, r) ==
    Alt(Then(take_while1(Space, s, r), LAMBDA sp :
        Then(parse_key(s, sp.pos), LAMBDA k : tag(Lit("="), s, k.pos))),
        tag(Lit("'"), s, r))

RECURSIVE words_end(_, _)
\* that loop breaking at the single quote only, with no look at a following key
words_to_quote(s, r) ==
    IF tag(Lit("'"), s, r).ok THEN r
    ELSE IF RunEnd(Space, s, r) = r THEN 0
    ELSE words_end(s, RunEnd(Space, s, r))

\* the loop of parse_str_words_inside_sq after its take_while stopped at r: the
\* position it breaks at, 0 when space1 fails
words_at(s, r) ==
    IF words_break(s, r).ok THEN r
    ELSE IF RunEnd(Space, s, r) = r THEN 0
    ELSE words_end(s, RunEnd(Space, s, r))

\* the loop of parse_str_words_inside_sq from rest = i
words_end(s, i) == words_at(s, RunEnd(Byte \ {39, 32}, s, i))

\* the range from .. e-1 the loop recognized, if it did not fail
Words(e, from) == IF e = 0 THEN Fail ELSE Ok(e, <<from, e>>)

\* fn parse_str_words_inside_sq
parse_str_words_inside_sq(s, i) == Words(words_end(s, i), i)

\* one key, "=" or ":" with spaces, and value of parse_kv_sq_as_map
map_item(s, i) ==
    Then(parse_key(s, i), LAMBDA k :
    Then(Alt(tag(Lit("="), s, k.pos),
             Then(tag(Lit(":"), s, k.pos), LAMBDA c : Ok(RunEnd(Space, s, c.pos), <<>>))),
         LAMBDA e :
    Then(Alt(parse_encoded(s, e.pos),
         Alt(Quoted(parse_str_words_inside_sq(s, e.pos), s, "None"),
             Quoted(parse_str_unq_inside_sq(s, e.pos), s, "None"))),
         LAMBDA v : Ok(v.pos, [k |-> k.val, v |-> v.val]))))

RECURSIVE map_more(_, _, _)
\* separated_list0(space1, item) after an item
map_more(s, i, acc) ==
    IfOk(Then(take_while1(Space, s, i), LAMBDA sp : map_item(s, sp.pos)),
         LAMBDA f : map_more(s, f.pos, Append(acc, f.val)), Ok(i, acc))

\* fn parse_kv_sq_as_map
parse_kv_sq_as_map(s, i) ==
    Then(tag(Lit("'"), s, i), LAMBDA o :
    Then(IfOk(map_item(s, o.pos), LAMBDA f : map_more(s, f.pos, <<f.val>>),
              Ok(o.pos, <<>>)), LAMBDA l :
    Then(tag(Lit("'"), s, l.pos), LAMBDA c : Ok(c.pos, Map(l.val)))))

\* constants::FIELD_TYPES: field name and field type
FieldTable == {
    <<Lit("acct"), "Encoded">>, <<Lit("proctitle"), "Encoded">>,
    <<Lit("capability"), "NumericDec">>, <<Lit("uring_op"), "NumericDec">>,
    <<Lit("flags"), "NumericHex">>, <<Lit("omode"), "NumericOct">>,
    <<Lit("permissive"), "Numeric">> }

\* FIELD_TYPES.get(name)
FIELD_TYPES(name) ==
    IF \E e \in FieldTable : e[1] = name
    THEN (CHOOSE e \in FieldTable : e[1] = name)[2] ELSE "None"

\* the first alternative of parse_named, by field type
named_first(ft, s, i) ==
    IF ft = "NumericHex" THEN parse_hex(s, i)
    ELSE IF ft = "NumericDec" THEN parse_dec(s, i)
    ELSE IF ft = "NumericOct" THEN parse_oct(s, i)
    ELSE parse_encoded(s, i)

\* fn parse_named
parse_named(s, i, ty, name) ==
    or_unspec(named_first(FIELD_TYPES(name), s, i), s, i, ty, name)

\* parse_common with the encoded recognizer for every keyword but msg
common_encoded(name, s, i, split_msg) ==
    IF name = Lit("msg") /\ split_msg THEN parse_kv_sq_as_map(s, i) ELSE parse_encoded(s, i)

\* the first alternative of parse_common, by the name of the key
common_first(name, s, i, split_msg) ==
    IF name \in {Lit("arch"), Lit("cap_fi"), Lit("cap_fp"), Lit("cap_fver")}
    THEN parse_hex(s, i)
    ELSE IF name \in {Lit("argc"), Lit("exit"), Lit("cap_fe"), Lit("inode"), Lit("item"),
                      Lit("items"), Lit("pid"), Lit("ppid"), Lit("ses"), Lit("syscall")}
    THEN parse_dec(s, i)
    ELSE IF name \in {Lit("success"), Lit("cwd"), Lit("dev"), Lit("tty"), Lit("comm"),
                      Lit("exe"), Lit("name"), Lit("nametype"), Lit("subj"), Lit("key")}
    THEN parse_encoded(s, i)
    ELSE IF name = Lit("mode") THEN parse_oct(s, i)
    ELSE IF split_msg THEN parse_kv_sq_as_map(s, i)
    ELSE parse_encoded(s, i)

\* Parser::parse_common: c is the index of the key in COMMON
parse_common(s, i, ty, c, split_msg) ==
    or_unspec(common_first(COMMON[c], s, i, split_msg), s, i, ty, COMMON[c])

\* u64::from_str_radix(ps, 16) gave r for the digits i .. e-1
HexOrStr(r, s, i, e) ==
    IF r.ok THEN Ok(e, NumHex(r.v)) ELSE Ok(e, Str(Sl(s, i, e), "None"))

\* the value of a SYSCALL aN pair: hex digits before a separator
syscall_arg(s, i) ==
    Then(BeforeSep(take_while1(HexDigit, s, i), s), LAMBDA d :
        HexOrStr(ParseRadix(d.val, 16, ZeroLimbs(4), 1), s, i, d.pos))

\* the value of one pair, by message type and key (parse_kv, second half)
kv_value(s, i, ty, key, split_msg) ==
    IF ty = MessageTypeOf("SYSCALL") /\ key.t = "Arg" /\ key.y = None THEN syscall_arg(s, i)
    ELSE IF ty = MessageTypeOf("SYSCALL") /\ key.t = "Common"
    THEN parse_common(s, i, ty, key.c, split_msg)
    ELSE IF ty = MessageTypeOf("EXECVE") /\ key.t = "Arg" THEN parse_encoded(s, i)
    ELSE IF ty = MessageTypeOf("EXECVE") /\ key.t = "ArgLen" THEN parse_dec(s, i)
    ELSE IF key.t = "Name" THEN parse_named(s, i, ty, key.n)
    ELSE IF key.t = "Common" THEN parse_common(s, i, ty, key.c, split_msg)
    ELSE IF key.t \in {"NameUID", "NameGID"}
    THEN or_unspec(parse_dec(s, i), s, i, ty, key.n)
    ELSE parse_encoded(s, i)

\* Parser::parse_kv: the pair and the index its key starts at
parse_kv(s, i, ty, split_msg) ==
    Then(kv_key(s, i, ty), LAMBDA k :
    Then(kv_value(s, k.pos, ty, k.val, split_msg), LAMBDA v :
        Ok(v.pos, [k |-> k.val, v |-> v.val, at |-> i])))

-----------------------------------------------------------------------------
(* Body: src/body.rs *)

Max(a, b) == IF a >= b THEN a ELSE b
MinOf(S) == CHOOSE x \in S : \A y \in S : x <= y

\* Addresses.  An input line occupies 1..Len(raw); the bytes of a Value::Owned
\* sit at OwnedAddr; the heap the arena buffers are allocated from starts at
\* HeapBase.  heap is the set of live blocks [base, cap].
OwnedAddr == 2^11
HeapBase == 2^12

Free(blocks, a, cap) == \A b \in blocks : a + cap <= b.base \/ b.base + b.cap <= a

\* the allocator: the lowest address where cap bytes overlap no live block
Alloc(blocks, cap) ==
    MinOf({a \in {HeapBase} \cup {b.base + b.cap : b \in blocks} : Free(blocks, a, cap)})

\* Vec::with_capacity(cap) at address base; chunks are the slices appended so far
Buf(base, cap) == [base |-> base, cap |-> cap, len |-> 0, chunks |-> <<>>]
Block(buf) == [base |-> buf.base, cap |-> buf.cap]

\* Vec<u8>::extend(input): within the capacity the bytes are appended in place;
\* beyond it the buffer is regrown to max(2 * cap, len + ilen), in place when the
\* allocator can (and chooses to: moves is its choice), else at a new address
VecExtend(buf, sl, blocks, moves) ==
    LET need == buf.len + sl.len
        grown == Max(2 * buf.cap, need)
        rest == blocks \ {Block(buf)}
        base == IF ~moves /\ Free(rest, buf.base, grown) THEN buf.base
                ELSE Alloc(blocks, grown)
        b1 == IF need <= buf.cap THEN buf
              ELSE [buf EXCEPT !.base = base, !.cap = grown]
    IN  [buf |-> [b1 EXCEPT !.len = need,
                            !.chunks = Append(@, [len |-> sl.len, tok |-> sl.tok])],
         heap |-> IF need <= buf.cap THEN blocks ELSE rest \cup {Block(b1)}]

\* buf.as_slice().as_ptr_range().contains(&p)
PtrRangeContains(buf, p) == buf.base <= p /\ p < buf.base + buf.len

\* what add_slice gives out: the slice, and the buffer it lies in as it then was
Given(sl, buf) == [sl |-> sl, base |-> buf.base, cap |-> buf.cap]

\* the bytes of sl at offset e of buf
At(buf, e, sl) == [addr |-> buf.base + e, len |-> sl.len, tok |-> sl.tok]

\* add_slice, first loop: the buffers whose used range holds both ends of sl
Own(arena, sl) ==
    {n \in 1..Len(arena) : /\ PtrRangeContains(arena[n], sl.addr)
                           /\ PtrRangeContains(arena[n], sl.addr + sl.len)}

\* add_slice, second loop, taking any buffer whatever room it has
RoomAnywhere(arena, sl) == 1..Len(arena)

\* add_slice, second loop: the buffers with buf.capacity() - buf.len() > ilen
Room(arena, sl) == {n \in 1..Len(arena) : arena[n].cap - arena[n].len > sl.len}

\* add_slice returns the input: it lies in buf already
KeepSlice(st, sl, buf) ==
    [st |-> [st EXCEPT !.given = Append(@, Given(sl, buf))], sl |-> sl]

\* add_slice returns &buf[e..e + ilen] of buffer n (a new last one when n is past
\* the arena); r is the buffer and the heap after buf.extend(input)
CopySlice(st, sl, n, e, r) ==
    [st |-> [arena |-> IF n > Len(st.arena) THEN Append(st.arena, r.buf)
                       ELSE [st.arena EXCEPT ![n] = r.buf],
             heap |-> r.heap,
             given |-> Append(st.given, Given(At(r.buf, e, sl), r.buf))],
     sl |-> At(r.buf, e, sl)]

\* add_slice appends to buffer n of the arena
IntoBuf(st, sl, n, moves) ==
    CopySlice(st, sl, n, st.arena[n].len, VecExtend(st.arena[n], sl, st.heap, moves))

\* add_slice appends to the newly allocated buffer fresh
IntoNew(st, sl, fresh, moves) ==
    CopySlice(st, sl, Len(st.arena) + 1, 0,
              VecExtend(fresh, sl, st.heap \cup {Block(fresh)}, moves))

\* Vec::with_capacity(cap) from the allocator
NewBuf(blocks, cap) == Buf(Alloc(blocks, cap), cap)

\* add_slice that returns its input: nothing is copied to the arena
add_slice_input(st, sl, moves) == [st |-> st, sl |-> sl]

\* fn add_slice, on st = [arena, heap, given]
add_slice(st, sl, moves) ==
    IF Own(st.arena, sl) # {} THEN KeepSlice(st, sl, st.arena[MinOf(Own(st.arena, sl))])
    ELSE IF Room(st.arena, sl) # {} THEN IntoBuf(st, sl, MinOf(Room(st.arena, sl)), moves)
    ELSE IntoNew(st, sl, NewBuf(st.heap, 1014 * (1 + (sl.len \div 1024))), moves)

StringifiedList(vs) == [t |-> "StringifiedList", vs |-> vs]
Segments(sls) == [t |-> "Segments", sls |-> sls]

\* the bytes of a Value::Owned as a slice
OwnedSlice(bytes) == [addr |-> OwnedAddr, len |-> Len(bytes), tok |-> bytes]

RECURSIVE add_value(_, _, _)
RECURSIVE add_values(_, _, _, _)
RECURSIVE add_slices(_, _, _, _)
RECURSIVE add_pairs(_, _, _, _)

\* vs.iter().map(|s| self.add_slice(s)).collect(), after add_slice gave h
next_slice(h, sls, moves, acc) == add_slices(h.st, sls, moves, Append(acc, h.sl))

\* vs.iter().map(|s| self.add_slice(s)).collect(): acc are the slices so far
add_slices(st, sls, moves, acc) ==
    IF sls = <<>> THEN [st |-> st, v |-> acc]
    ELSE next_slice(add_slice(st, Head(sls), moves), Tail(sls), moves, acc)

\* vs.into_iter().map(|v| self.add_value(v)).collect(), after add_value gave h
next_value(h, vs, moves, acc) == add_values(h.st, vs, moves, Append(acc, h.v))

\* vs.into_iter().map(|v| self.add_value(v)).collect(): acc are the values so far
add_values(st, vs, moves, acc) ==
    IF vs = <<>> THEN [st |-> st, v |-> acc]
    ELSE next_value(add_value(st, Head(vs), moves), Tail(vs), moves, acc)

\* vs.into_iter().map(|(k, v)| (k, self.add_value(v))).collect(), after add_value
\* gave h for the value of key k
next_pair(h, k, kvs, moves, acc) ==
    add_pairs(h.st, kvs, moves, Append(acc, [k |-> k, v |-> h.v]))

\* vs.into_iter().map(|(k, v)| (k, self.add_value(v))).collect()
add_pairs(st, kvs, moves, acc) ==
    IF kvs = <<>> THEN [st |-> st, v |-> acc]
    ELSE next_pair(add_value(st, Head(kvs).v, moves), Head(kvs).k, Tail(kvs), moves, acc)

\* r.v made into a Value by Wrap; the arena state of r
Wrapped(r, Wrap(_)) == [st |-> r.st, v |-> Wrap(r.v)]

\* Value::Str(self.add_slice(s), q)
StrOf(r, q) == [st |-> r.st, v |-> Str(r.sl, q)]

\* add_value with a first arm that hands an Owned value back as it is
add_value_kept(st, v, moves) ==
    IF v.t = "Owned" THEN [st |-> st, v |-> v]
    ELSE IF v.t = "Str" THEN StrOf(add_slice(st, v.sl, moves), v.q)
    ELSE IF v.t = "List" THEN Wrapped(add_values(st, v.vs, moves, <<>>), List)
    ELSE IF v.t = "StringifiedList"
    THEN Wrapped(add_values(st, v.vs, moves, <<>>), StringifiedList)
    ELSE IF v.t = "Segments" THEN Wrapped(add_slices(st, v.sls, moves, <<>>), Segments)
    ELSE IF v.t = "Map" THEN Wrapped(add_pairs(st, v.kvs, moves, <<>>), Map)
    ELSE [st |-> st, v |-> v]

\* fn add_value
add_value(st, v, moves) ==
    IF v.t = "Str" THEN StrOf(add_slice(st, v.sl, moves), v.q)
    ELSE IF v.t = "Owned" THEN StrOf(add_slice(st, OwnedSlice(v.bytes), moves), "None")
    ELSE IF v.t = "List" THEN Wrapped(add_values(st, v.vs, moves, <<>>), List)
    ELSE IF v.t = "StringifiedList"
    THEN Wrapped(add_values(st, v.vs, moves, <<>>), StringifiedList)
    ELSE IF v.t = "Segments" THEN Wrapped(add_slices(st, v.sls, moves, <<>>), Segments)
    ELSE IF v.t = "Map" THEN Wrapped(add_pairs(st, v.kvs, moves, <<>>), Map)
    ELSE [st |-> st, v |-> v]

\* struct Body, with the slices its arena has given out (given, a history)
Body_new == [live |-> TRUE, elems |-> <<>>, arena |-> <<>>, given |-> <<>>]
NoBody == [live |-> FALSE, elems |-> <<>>, arena |-> <<>>, given |-> <<>>]

\* push that puts the entry in front
PushedFront(body, k, r) ==
    [body |-> [body EXCEPT !.elems = <<[k |-> k, v |-> r.v]>> \o @,
                           !.arena = r.st.arena, !.given = r.st.given],
     heap |-> r.st.heap]

\* self.elems.push((k, v)) with the v that add_value gave as r
Pushed(body, k, r) ==
    [body |-> [body EXCEPT !.elems = Append(@, [k |-> k, v |-> r.v]),
                           !.arena = r.st.arena, !.given = r.st.given],
     heap |-> r.st.heap]

\* fn push: the Body and the heap after it
Body_push(body, blocks, k, v, moves) ==
    Pushed(body, k, add_value([arena |-> body.arena, heap |-> blocks,
                               given |-> body.given], v, moves))

RECURSIVE push_all(_, _, _, _)
\* for (k, v) in elems { self.push((k, v)) }, after a push gave r
push_more(r, kvs, moves) == push_all(r.body, r.heap, kvs, moves)

\* for (k, v) in elems { self.push((k, v)) }
push_all(body, blocks, kvs, moves) ==
    IF kvs = <<>> THEN [body |-> body, heap |-> blocks]
    ELSE push_more(Body_push(body, blocks, Head(kvs).k, Head(kvs).v, moves),
                   Tail(kvs), moves)

\* fn extend
Body_extend(body, other, blocks, moves) ==
    push_all([body EXCEPT !.arena = @ \o other.arena, !.given = @ \o other.given],
             blocks, other.elems, moves)

\* fn retain: Vec::retain keeps, in order, the elements the predicate accepts
Body_retain(body, keep(_)) == [body EXCEPT !.elems = SelectSeq(@, keep)]

\* impl Clone
Body_clone(body, blocks, moves) == push_all(Body_new, blocks, body.elems, moves)

\* fn len
Body_len(body) == Len(body.elems)

\* impl Display for Key
Key_fmt(k) ==
    CASE k.t = "Arg" -> IF k.y = None THEN Lit("a") \o FmtInt(k.x)
                        ELSE Lit("a") \o FmtInt(k.x) \o Lit("[") \o FmtInt(k.y[1]) \o Lit("]")
      [] k.t = "ArgLen" -> Lit("a") \o FmtInt(k.x) \o Lit("_len")
      [] k.t = "Common" -> COMMON[k.c]
      [] OTHER -> k.n

\* impl PartialEq<[u8]> for Key
Key_eq(k, other) ==
    IF k.t \in {"Name", "NameUID", "NameGID"} THEN k.n = other ELSE Key_fmt(k) = other

\* u32::from_str(x) and u16::from_str(y), both Ok: Key::Arg(x, Some(y))
ArgOf(x, y) == IF x.ok /\ y.ok THEN Some(KeyArg(x.v, Some(y.v))) ELSE None

\* s.split_once("[")?, then the two numbers
try_parse_a_xy(sp) ==
    IF sp = None THEN None
    ELSE ArgOf(FromStrUnsigned(sp[1][1], 2), FromStrUnsigned(sp[1][2], 1))

\* Some(key(x)) when u32::from_str gave x, None otherwise
ArgNumber(x, key) == IF x.ok THEN Some(key) ELSE None

\* fn try_parse_a, on the text after the stripped prefix "a"
try_parse_a_rest(r) ==
    IF EndsWith(r, Lit("]"))
    THEN try_parse_a_xy(SplitOnce(SubSeq(r, 1, Len(r) - 1), 91))
    ELSE IF EndsWith(r, Lit("_len"))
    THEN ArgNumber(FromStrUnsigned(SubSeq(r, 1, Len(r) - 4), 2),
                   KeyArgLen(FromStrUnsigned(SubSeq(r, 1, Len(r) - 4), 2).v))
    ELSE ArgNumber(FromStrUnsigned(r, 2), KeyArg(FromStrUnsigned(r, 2).v, None))

\* fn try_parse_a
try_parse_a(s) ==
    IF Len(s) > 0 /\ s[1] = 97 THEN try_parse_a_rest(Tail(s)) ELSE None

\* impl FromStr for Key
Key_from_str(s) ==
    IF Common_try_from(s) # 0 THEN KeyCommon(Common_try_from(s))
    ELSE IF try_parse_a(s) # None THEN try_parse_a(s)[1]
    ELSE IF EndsWith(s, Lit("uid")) THEN KeyNameUID(s)
    ELSE IF EndsWith(s, Lit("gid")) THEN KeyNameGID(s)
    ELSE KeyName(s)

RECURSIVE find(_, _, _)
\* self.elems.iter().find(|(k, _)| k == key), from index n on
find(elems, key, n) ==
    IF n > Len(elems) THEN None
    ELSE IF Key_eq(elems[n].k, key) THEN Some(elems[n].v)
    ELSE find(elems, key, n + 1)

\* fn get
Body_get(body, key) == find(body.elems, key, 1)

-----------------------------------------------------------------------------
(* Parser, body and whole line: src/parser.rs *)

RECURSIVE identifiers(_, _, _)
\* many0(terminated(parse_identifier, space0)) as Value::Str(e, Quote::None)
identifiers(s, i, acc) ==
    IfOk(parse_identifier(s, i),
         LAMBDA id : identifiers(s, RunEnd(Space, s, id.pos),
                                 Append(acc, Str(Sl(s, i, id.pos), "None"))),
         Ok(i, acc))

\* many1: Error when there is no item
NonEmpty(r) == IF r.val = <<>> THEN Fail ELSE r

\* the avc prefix whose entry has the first identifier only
avc_prefix_first(s, i) ==
    Then(tag(Lit("avc:"), s, i), LAMBDA a :
    Then(Alt(tag(Lit("granted"), s, RunEnd(Space, s, a.pos)),
             tag(Lit("denied"), s, RunEnd(Space, s, a.pos))), LAMBDA g :
    Then(tag(Lit("{"), s, RunEnd(Space, s, g.pos)), LAMBDA o :
    Then(NonEmpty(identifiers(s, RunEnd(Space, s, o.pos), <<>>)), LAMBDA ids :
    Then(tag(Lit("}"), s, ids.pos), LAMBDA c :
    Then(tag(Lit("for"), s, RunEnd(Space, s, c.pos)), LAMBDA f :
        Ok(RunEnd(Space, s, f.pos),
           [k |-> KeyName(g.val), v |-> List(<<ids.val[1]>>), at |-> i])))))))

\* the "avc: granted { ... } for " prefix of an AVC body and the entry it makes
avc_prefix(s, i) ==
    Then(tag(Lit("avc:"), s, i), LAMBDA a :
    Then(Alt(tag(Lit("granted"), s, RunEnd(Space, s, a.pos)),
             tag(Lit("denied"), s, RunEnd(Space, s, a.pos))), LAMBDA g :
    Then(tag(Lit("{"), s, RunEnd(Space, s, g.pos)), LAMBDA o :
    Then(NonEmpty(identifiers(s, RunEnd(Space, s, o.pos), <<>>)), LAMBDA ids :
    Then(tag(Lit("}"), s, ids.pos), LAMBDA c :
    Then(tag(Lit("for"), s, RunEnd(Space, s, c.pos)), LAMBDA f :
        Ok(RunEnd(Space, s, f.pos),
           [k |-> KeyName(g.val), v |-> List(ids.val), at |-> i])))))))

\* terminated(tag("netlabel"), pair(tag(":"), space0)) and the entry it makes
netlabel_prefix(s, i) ==
    Then(tag(Lit("netlabel"), s, i), LAMBDA n :
    Then(tag(Lit(":"), s, n.pos), LAMBDA c :
        Ok(RunEnd(Space, s, c.pos), [k |-> KeyName(n.val), v |-> Empty, at |-> i])))

\* the special-case prefix of a body: where the pairs start and the entry it makes
body_special(s, i, ty) ==
    IF ty = MessageTypeOf("AVC") THEN Opt(avc_prefix(s, i), i)
    ELSE IF ty = MessageTypeOf("TTY") THEN Ok(opt_tag(Lit("tty "), s, i), None)
    ELSE IF ty = MessageTypeOf("MAC_POLICY_LOAD")
    THEN Ok(opt_tag(Lit("policy loaded "), s, i), None)
    ELSE Opt(netlabel_prefix(s, i), i)

RECURSIVE kv_more(_, _, _, _, _, _)
\* separated_list0(sep, parse_kv), after a pair: sep is one space, or with enriched
\* a run of spaces and 0x1d
kv_more(s, i, ty, enriched, split_msg, acc) ==
    IfOk(Then(IF enriched THEN take_while1({32, 29}, s, i) ELSE tag(Lit(" "), s, i),
              LAMBDA sp : parse_kv(s, sp.pos, ty, split_msg)),
         LAMBDA kv : kv_more(s, kv.pos, ty, enriched, split_msg, Append(acc, kv.val)),
         Ok(i, acc))

\* separated_list0(sep, parse_kv)
kv_list(s, i, ty, enriched, split_msg) ==
    IfOk(parse_kv(s, i, ty, split_msg),
         LAMBDA kv : kv_more(s, kv.pos, ty, enriched, split_msg, <<kv.val>>),
         Ok(i, <<>>))

\* eof
eof(s, i) == IF i = Len(s) + 1 THEN Ok(i, <<>>) ELSE Fail

\* alt((tag("\n"), eof))
line_end(s, i) == Alt(tag(NL, s, i), eof(s, i))

\* what ends the pairs: without enriched, 0x1d and the rest of the line is dropped
body_end(s, i, enriched) ==
    IF enriched THEN line_end(s, i)
    ELSE Alt(Then(tag(GS, s, i), LAMBDA g :
             Then(take_while1(Byte \ {10}, s, g.pos), LAMBDA r : line_end(s, r.pos))),
             line_end(s, i))

\* parse_body with the special entry put before the pairs
push_special_first(kv, special) == IF special = None THEN kv ELSE <<special[1]>> \o kv

\* kv.push(s) if there is a special entry s
push_special(kv, special) == IF special = None THEN kv ELSE Append(kv, special[1])

\* fn parse_body
parse_body(s, i, ty, enriched, split_msg) ==
    Then(body_special(s, i, ty), LAMBDA sp :
    Then(kv_list(s, sp.pos, ty, enriched, split_msg), LAMBDA kv :
    Then(body_end(s, kv.pos, enriched), LAMBDA e :
        Ok(e.pos, push_special(kv.val, sp.val)))))

NoEventID == [timestamp |-> ZeroLimbs(4), sequence |-> ZeroLimbs(2)]
NoType == ZeroLimbs(2)

\* Result<Message, ParseError>, or the panic of an arithmetic overflow check
Message(node, ty, id, body, at) ==
    [t |-> "Ok", e |-> "", bytes |-> <<>>, node |-> node, ty |-> ty, id |-> id,
     body |-> body, at |-> at]
Err(e, bytes) ==
    [t |-> "Err", e |-> e, bytes |-> bytes, node |-> None, ty |-> NoType, id |-> NoEventID,
     body |-> NoBody, at |-> <<>>]
Panic == [Err("", <<>>) EXCEPT !.t = "Panic"]

\* the (Key, Value) pairs of the parsed entries
Pairs(es) == [n \in 1..Len(es) |-> [k |-> es[n].k, v |-> es[n].v]]

\* where in the line each parsed entry started
Starts(es) == [n \in 1..Len(es) |-> es[n].at]

\* Ok(Message { id, node, ty, body }): r is the Body and the heap after the pushes
Parsed(h, es, r) ==
    [res |-> Message(h.node, h.ty, [timestamp |-> h.id.timestamp, sequence |-> h.id.sequence],
                     r.body, Starts(es)),
     heap |-> r.heap]

\* Parser::parse after parse_header gave h and parse_body gave b
parse_rest(h, b, raw, blocks, moves) ==
    IF ~b.ok
    THEN [res |-> Err("MalformedBody", Slice(raw, h.pos, Len(raw) + 1)), heap |-> blocks]
    ELSE IF b.pos # Len(raw) + 1
    THEN [res |-> Err("TrailingGarbage", Slice(raw, b.pos, Len(raw) + 1)), heap |-> blocks]
    ELSE Parsed(h.val, b.val, push_all(Body_new, blocks, Pairs(b.val), moves))

\* Parser::parse after parse_header gave h
parse_line(h, raw, enriched, split_msg, checks, blocks, moves) ==
    IF ~h.ok THEN [res |-> Err("MalformedHeader", raw), heap |-> blocks]
    ELSE IF h.val.id.overflow /\ checks THEN [res |-> Panic, heap |-> blocks]
    ELSE parse_rest(h, parse_body(raw, h.pos, h.val.ty, enriched, split_msg),
                    raw, blocks, moves)

\* fn Parser::parse.  checks: the build has overflow checks (debug) or wraps (release).
\* The Message carries, beside the Body, where in the line each entry started (at).
Parser_parse(raw, enriched, split_msg, checks, blocks, moves) ==
    parse_line(parse_header(raw, 1), raw, enriched, split_msg, checks, blocks, moves)

-----------------------------------------------------------------------------
(* Serialization: impl Serialize for Number, Value and Body *)

RECURSIVE RadixDigits(_, _)
\* the digits of x in radix r (lowercase), most significant first, none for zero
RadixDigits(x, r) ==
    IF IsZero(x) THEN <<>>
    ELSE RadixDigits(Quot(x, r), r)
         \o <<IF Rem(x, r) < 10 THEN 48 + Rem(x, r) ELSE 87 + Rem(x, r)>>

\* "{n:x}" and "{n:o}"
FmtRadix(x, r) == IF IsZero(x) THEN <<48>> ELSE RadixDigits(x, r)

\* impl Display for Number
Number_fmt(n) ==
    CASE n.b = "Hex" -> Lit("0x") \o FmtRadix(n.v, 16)
      [] n.b = "Oct" -> Lit("0o") \o FmtRadix(n.v, 8)
      [] OTHER -> (IF n.neg THEN Lit("-") ELSE <<>>) \o FmtInt(n.v)

\* the tokens a serializer receives
Unit == [t |-> "Unit"]
Bytes(b) == [t |-> "Bytes", b |-> b]
I64(neg, v) == [t |-> "I64", neg |-> neg, v |-> v]
String(s) == [t |-> "Str", s |-> s]
SerSeq(vs) == [t |-> "Seq", vs |-> vs]
SerMap(kvs) == [t |-> "Map", kvs |-> kvs]

\* impl Serialize for Number: Dec as i64, Hex and Oct by their display string
Number_serialize(n) ==
    IF n.b = "Dec" THEN I64(n.neg, n.v) ELSE String(Number_fmt(n))

RECURSIVE Concat(_)
\* the byte strings of a sequence, one after the other
Concat(bs) == IF bs = <<>> THEN <<>> ELSE Head(bs) \o Concat(Tail(bs))

\* impl TryFrom<Value> for Vec<u8>
Value_bytes(v) ==
    CASE v.t = "Str" -> Some(IF v.q = "Braces" THEN Lit("{") \o v.sl.tok \o Lit("}")
                             ELSE v.sl.tok)
      [] v.t = "Empty" -> Some(<<>>)
      [] v.t = "Segments" -> Some(Concat([k \in 1..Len(v.sls) |-> v.sls[k].tok]))
      [] v.t = "Owned" -> Some(v.bytes)
      [] OTHER -> None

\* the items of a StringifiedList joined by one space, "x" for what has no bytes
Joined(vs) ==
    Concat([k \in 1..Len(vs) |->
              (IF k > 1 THEN Lit(" ") ELSE <<>>)
              \o (IF Value_bytes(vs[k]) = None THEN Lit("x") ELSE Value_bytes(vs[k])[1])])

RECURSIVE Value_serialize(_)
\* impl Serialize for Value
Value_serialize(v) ==
    CASE v.t = "Empty" -> Unit
      [] v.t \in {"Str", "Segments", "Owned"} -> Bytes(Value_bytes(v)[1])
      [] v.t = "List" -> SerSeq([k \in 1..Len(v.vs) |-> Value_serialize(v.vs[k])])
      [] v.t = "StringifiedList" -> Bytes(Joined(v.vs))
      [] v.t = "Number" -> Number_serialize(v.n)
      [] v.t = "Map" ->
            SerMap([k \in 1..Len(v.kvs) |->
                      [k |-> String(Key_fmt(v.kvs[k].k)), v |-> Value_serialize(v.kvs[k].v)]])

\* map.serialize_entry(&k, &v): the key by its display string
serialize_entry(e) == [k |-> String(Key_fmt(e.k)), v |-> Value_serialize(e.v)]

\* the elements the loop of Body::serialize does not `continue` over
Serialized(e) == e.k.t \notin {"Arg", "ArgLen"}

\* impl Serialize for Body: a map of the elements in iteration order
Body_serialize(body) ==
    LET kept == SelectSeq(body.elems, Serialized)
    IN  SerMap([k \in 1..Len(kept) |-> serialize_entry(kept[k])])

-----------------------------------------------------------------------------
(* Specification SpecText: display an EventID or a MessageType, parse it back *)

NoResult == [t |-> "None"]

\* the low limbs sampled for ids: the table's ids and the edges of the ranges
IdSamples ==
    {e[2] : e \in EventTable} \cup {0, 1005, 1007, 1299, 1301, 2099, 2100, 2101, 9999, 65535}

TypeIds == {<<lo, hi>> : lo \in IdSamples, hi \in {0, 1, 65535}}

EventIDs ==
    {[timestamp |-> <<a, b, c, d>>, sequence |-> q] :
        a \in {0, 5, 999, 1000, 12345, 65535}, b \in {0, 1, 65535},
        c \in {0, 65535}, d \in {0, 65535},
        q \in {<<0, 0>>, <<1, 0>>, <<25836, 0>>, <<65535, 65535>>}}


\* no repetition of the parser is followed step by step
NoRep == [name |-> "none", ty |-> NoType, from |-> 0, pos |-> 0, n |-> 0,
          done |-> FALSE, failed |-> FALSE, elem |-> <<>>]
RepIdle == rep = NoRep

ParserIdle ==
    /\ inp = [raw |-> <<>>, enriched |-> TRUE, split_msg |-> TRUE, hdr |-> <<>>]
    /\ out = NoResult

BodyIdle ==
    /\ bodies = <<>>
    /\ heap = {}
    /\ log = <<>>
    /\ made = 0

TextIdle ==
    /\ obj = [t |-> "None", id |-> NoEventID, ty |-> NoType]
    /\ text = <<>>
    /\ back = NoResult
    /\ step = "idle"

TextInit ==
    /\ lit = LitTab
    /\ RepIdle
    /\ obj \in {[t |-> "EventID", id |-> e, ty |-> NoType] : e \in EventIDs}
               \cup {[t |-> "MessageType", id |-> NoEventID, ty |-> m] : m \in TypeIds}
    /\ text = <<>>
    /\ back = NoResult
    /\ step = "new"
    /\ ParserIdle
    /\ BodyIdle

\* EventID::to_string
ShowEventID ==
    /\ step = "new" /\ obj.t = "EventID"
    /\ text' = EventID_fmt(obj.id)
    /\ step' = "shown"
    /\ UNCHANGED <<lit, rep, made, obj, back, inp, out, bodies, heap, log>>

\* EventID::from_str of the displayed text, in a build with or without overflow checks
ReadEventID ==
    /\ step = "shown" /\ obj.t = "EventID"
    /\ \E checks \in BOOLEAN : back' = [via |-> "from_str", r |-> EventID_from_str(text, checks)]
    /\ step' = "read"
    /\ UNCHANGED <<lit, rep, made, obj, text, inp, out, bodies, heap, log>>

\* MessageType::to_string
ShowMessageType ==
    /\ step = "new" /\ obj.t = "MessageType"
    /\ text' = MessageType_fmt(obj.ty)
    /\ step' = "shown"
    /\ UNCHANGED <<lit, rep, made, obj, back, inp, out, bodies, heap, log>>

\* MessageType::from_str of the displayed text
ReadMessageType ==
    /\ step = "shown" /\ obj.t = "MessageType"
    /\ back' = [via |-> "from_str", r |-> MessageType_from_str(text)]
    /\ step' = "read"
    /\ UNCHANGED <<lit, rep, made, obj, text, inp, out, bodies, heap, log>>

\* the header's type= recognizer on the displayed text
ReadTypeInHeader ==
    /\ step = "shown" /\ obj.t = "MessageType"
    /\ back' = [via |-> "parse_type", r |-> parse_type(Lit("type=") \o text \o Lit(" "), 1)]
    /\ step' = "read"
    /\ UNCHANGED <<lit, rep, made, obj, text, inp, out, bodies, heap, log>>

\* MessageType::is_multipart
AskMultipart ==
    /\ step = "new" /\ obj.t = "MessageType"
    /\ back' = [via |-> "is_multipart", r |-> is_multipart(obj.ty)]
    /\ step' = "asked"
    /\ UNCHANGED <<lit, rep, made, obj, text, inp, out, bodies, heap, log>>

TextNext ==
    \/ ShowEventID
    \/ ReadEventID
    \/ ShowMessageType
    \/ ReadMessageType
    \/ ReadTypeInHeader
    \/ AskMultipart

SpecText == TextInit /\ [][TextNext]_vars

-----------------------------------------------------------------------------
(* Properties of the text forms, under SpecText *)

AllDigits(s) == Len(s) > 0 /\ \A k \in 1..Len(s) : s[k] \in Digit

InEventTable(m) == \E e \in EventTable : U32(e[2]) = m

\* C4: a MessageType whose id is in the name table displays as that name, any other
\* id n displays as UNKNOWN[n], and both MessageType::from_str and the header's
\* type= recognizer read the displayed text back as the same id.
C4_MessageTypeRoundTrip ==
    (obj.t = "MessageType" /\ step \in {"shown", "read"}) =>
        /\ InEventTable(obj.ty) => \E e \in EventTable : text = e[1] /\ U32(e[2]) = obj.ty
        /\ ~InEventTable(obj.ty) =>
              LET n == Slice(text, 9, Len(text))
              IN  /\ Len(text) >= 10
                  /\ Slice(text, 1, 9) = Lit("UNKNOWN[")
                  /\ text[Len(text)] = 93
                  /\ AllDigits(n)
                  /\ ParseRadix(n, 10, ZeroLimbs(2), 1) = [ok |-> TRUE, v |-> obj.ty]
        /\ (step = "read" /\ back.via = "from_str") => back.r = [t |-> "Ok", v |-> obj.ty]
        /\ (step = "read" /\ back.via = "parse_type") =>
              back.r.ok /\ back.r.val = obj.ty /\ back.r.pos = Len(text) + 6

\* C4 witness: an id above 65535 that is not in the table was displayed as
\* UNKNOWN[n] and read back by the header's recognizer.
C4_Witness ==
    /\ obj.t = "MessageType" /\ step = "read" /\ back.via = "parse_type"
    /\ ~InEventTable(obj.ty) /\ obj.ty[2] = 65535
    /\ back.r.ok /\ back.r.val = obj.ty

\* C5: the display of an EventID is SEC.MMM:SEQ with exactly three digits of
\* milliseconds, and EventID::from_str of it gives the EventID back.
C5_EventIDRoundTrip ==
    (obj.t = "EventID" /\ step \in {"shown", "read"}) =>
        LET a == SplitOnce(text, 46)
            b == SplitOnce(a[1][2], 58)
        IN  /\ a # None /\ b # None
            /\ AllDigits(a[1][1]) /\ AllDigits(b[1][1]) /\ AllDigits(b[1][2])
            /\ Len(b[1][1]) = 3
            /\ ParseRadix(a[1][1], 10, ZeroLimbs(4), 1).v = Quot(obj.id.timestamp, 1000)
            /\ ParseRadix(b[1][1], 10, ZeroLimbs(4), 1).v = U64(Rem(obj.id.timestamp, 1000))
            /\ step = "read" => back.r = [t |-> "Ok", v |-> obj.id]

\* C5 witness: a timestamp in the top of the u64 range whose milliseconds need
\* padding was displayed and read back.
C5_Witness ==
    /\ obj.t = "EventID" /\ step = "read" /\ back.r.t = "Ok"
    /\ obj.id.timestamp[4] = 65535 /\ Rem(obj.id.timestamp, 1000) < 100
    /\ obj.id.sequence = <<65535, 65535>>

\* C6: is_multipart is true exactly for the ids in [1300, 2100) and the LOGIN id.
C6_Multipart ==
    (obj.t = "MessageType" /\ step = "asked") =>
        (back.r <=> \/ (obj.ty[2] = 0 /\ obj.ty[1] >= 1300 /\ obj.ty[1] < 2100)
                    \/ \E e \in EventTable : e[1] = Lit("LOGIN") /\ obj.ty = <<e[2], 0>>)

\* C6 witness: is_multipart answered for the LOGIN id, which is outside the range.
C6_Witness ==
    /\ obj.t = "MessageType" /\ step = "asked"
    /\ obj.ty = MessageTypeOf("LOGIN") /\ back.r = TRUE

-----------------------------------------------------------------------------
(* Specification Spec: one input line is given to Parser::parse *)

NodeSamples == {None, Some(Lit("h1"))}
TypeSamples == {Lit("EOE"), Lit("SYSCALL"), Lit("EXECVE"), Lit("AVC"), Lit("TTY"),
                Lit("MAC_POLICY_LOAD"), Lit("MAC_UNLBL_ALLOW"), Lit("USER_ACCT"),
                Lit("UNKNOWN[1329]")}
\* seconds: small, the largest whose product with 1000 fits, the first whose
\* product does not, the largest u64, and the first that is no u64
SecSamples == {Lit("1"), Lit("1615114232"), Lit("18446744073709551"),
               Lit("18446744073709552"), Lit("18446744073709551615"),
               Lit("18446744073709551616")}
MsecSamples == {Lit("0"), Lit("002"), Lit("375"), Lit("615"), Lit("616")}
SeqSamples == {Lit("3"), Lit("4294967295"), Lit("4294967296")}

\* [node=NODE ]type=TYPE msg=audit(SEC.MSEC:SEQ):_
Header(h) ==
    (IF h.node = None THEN <<>> ELSE Lit("node=") \o h.node[1] \o Lit(" "))
    \o Lit("type=") \o h.ty \o Lit(" msg=audit(") \o h.sec \o Lit(".") \o h.msec
    \o Lit(":") \o h.seq \o Lit("): ")

Hdr(node, ty, sec, msec, seq) ==
    [built |-> TRUE, node |-> node, ty |-> ty, sec |-> sec, msec |-> msec, seq |-> seq]
NoHdr == [Hdr(None, <<>>, <<>>, <<>>, <<>>) EXCEPT !.built = FALSE]
PlainHdr(ty) == Hdr(None, ty, Lit("1"), Lit("002"), Lit("3"))

\* bodies of numeric pairs: digit runs one past what the type holds, and the largest
\* that fit
OverflowBodies == {
    Lit("a0=10000000000000000 arch=10000000000000000 pid=9223372036854775808 mode=2000000000000000000000 uid=18446744073709551616 ses=1\n"),
    Lit("a0=ffffffffffffffff arch=ffffffffffffffff pid=9223372036854775807 mode=1777777777777777777777 uid=0\n") }

\* bodies with a subj value that is no encoded value, and the number of their pairs
SubjSamples == {
    [b |-> Lit("pid=1 subj==/usr/sbin/ntpd (enforce) key=(null)\n"), n |-> 3],
    [b |-> Lit("subj=/{,usr/}sbin/dhclient key=(null)\n"), n |-> 2],
    [b |-> Lit("subj=unconfined (x_y) uid=0\n"), n |-> 2],
    [b |-> Lit("subj== uid=0\n"), n |-> 2],
    [b |-> Lit("subj=61zz (a)\n"), n |-> 1] }

\* bodies: pairs, separators, line ends, prefixes, quoting and encodings
BodySamples == OverflowBodies \cup {s.b : s \in SubjSamples} \cup {
    Lit(""), Lit("\n"), Lit("a=b"),
    Lit("pid=1 uid=0 exe=\"/bin/sh\"\n"),
    Lit("pid=1  uid=0\n"),
    Lit("pid=1") \o GS \o Lit("UID=\"root\"\n"),
    Lit("pid=1 ") \o GS,
    Lit("a=b") \o GS \o Lit("\n"),
    Lit("a=b") \o GS,
    Lit("pid=1 a=b") \o GS \o Lit("x"),
    Lit("pid=1") \o GS \o Lit("x y\n"),
    Lit("pid=1\nrest"),
    Lit("=x"),
    Lit("a=b ="),
    Lit("netlabel: auid=0 old=0\n"),
    Lit("netlabel: \n"),
    Lit("avc:  denied  { read write } for  pid=2 comm=\"sh\"\n"),
    Lit("avc: granted { x } for \n"),
    Lit("avc:denied{a b_c\td}for pid=2\n"),
    Lit("avc: denied { } for pid=2\n"),
    Lit("avc: denied { read } pid=2\n"),
    Lit("tty pid=1 data=6C73\n"),
    Lit("policy loaded auid=0\n"),
    Lit("msg='op=login acct=\"root\" res=success'\n"),
    Lit("argc=2 a0=\"ls\" a1=2D6C a2_len=4 a2[0]=6162\n"),
    Lit("argc=0 a0=\"whoami\"\n"),
    Lit("argc=0 a0=\"whoami\""),
    Lit("a0=\"a b\" a1=6C7 a2=? a3=(null) a4=\"x\"\n"),
    Lit("a0=6c73 a1=(null)\n"),
    Lit("a0=?"),
    Lit("k='a=\"x'y\" b=c' e= f=\"p q\" g={ a=b c='d e' } h={ x y }\n"),
    Lit("k='a b' e=f|g h="),
    Lit("arch=c000003e cap_fi=0 cap_fp=1f cap_fver=2 mode=0100755\n"),
    Lit("argc=2 exit=-2 cap_fe=1 inode=261214 item=0\n"),
    Lit("items=2 ppid=2 ses=4294967295 syscall=59 success=yes\n"),
    Lit("cwd=\"/root\" dev=ca:03 tty=(none) comm=6C73 exe=\"/bin/ls\"\n"),
    Lit("name=(null) nametype=NORMAL key=\"k\" exit=EPERM mode=09\n"),
    Lit("a0=1f a1=zz items=2\n"),
    Lit("proctitle=2F62696E key=(null) x=?\n"),
    Lit("subj=system_u:object_r:x_t:s0 c={ a b } d='q r'\n"),
    Lit("pid=1 msg='op=x res=ok' uid=0\n"),
    Lit("msg='a=\"x'y\"  b=c' uid=0\n"),
    Lit("msg='op=PAM:session open acct=\"root\" exe=/bin/su hostname=? res=ok'\n"),
    Lit("msg='avc:  denied  { read } for  pid=2 name=6C73 x=(null)'\n"),
    Lit("msg='a=? b=6C73 c=x b: y z d=6C73' e=f"),
    Lit("msg='a=?'\n"),
    Lit("msg='' uid=0\n"),
    Lit("a=b pid=1"), Lit("a=b comm=6C73"), Lit("a=b key=(null)"), Lit("a=\"b\"") }

\* lines that are no header at all
BadLines == {Lit(""), Lit("type=EOE"), Lit("type=EOE msg=audit(1.002:3) a=b\n"),
             Lit("node=h1 msg=audit(1.002:3): a=b\n")}

Input(hdr, raw, enriched, split_msg) ==
    [raw |-> raw, enriched |-> enriched, split_msg |-> split_msg, hdr |-> hdr]

Inputs ==
    {Input(Hdr(n, ty, sec, msec, seq), Header(Hdr(n, ty, sec, msec, seq)) \o Lit("a=b\n"),
           TRUE, TRUE) :
        n \in NodeSamples, ty \in {Lit("EOE"), Lit("UNKNOWN[1329]")},
        sec \in SecSamples, msec \in MsecSamples, seq \in SeqSamples}
    \cup {Input(PlainHdr(ty), Header(PlainHdr(ty)) \o b, e, m) :
            ty \in TypeSamples, b \in BodySamples, e \in BOOLEAN, m \in BOOLEAN}
    \cup {Input(NoHdr, l, TRUE, TRUE) : l \in BadLines}

Init ==
    /\ lit = LitTab
    /\ RepIdle
    /\ inp \in Inputs
    /\ out = NoResult
    /\ BodyIdle
    /\ TextIdle

\* the call gives r: its result, and the heap after it
Returns(r) == out' = r.res /\ heap' = r.heap

\* Parser::parse(raw), in a build with (checks) or without overflow checks
Parse ==
    /\ out = NoResult
    /\ \E checks \in BOOLEAN, moves \in BOOLEAN :
          Returns(Parser_parse(inp.raw, inp.enriched, inp.split_msg, checks, heap, moves))
    /\ UNCHANGED <<lit, rep, made, obj, text, back, step, inp, bodies, log>>

\* serde: the parsed Message's body handed to a serializer
SerializeBody ==
    /\ out.t = "Ok"
    /\ step = "idle"
    /\ text' = Body_serialize(out.body)
    /\ step' = "serialized"
    /\ UNCHANGED <<lit, rep, made, obj, back, inp, out, bodies, heap, log>>

\* the keys of the entries es and of the entries of their Map values
KeysOf(es) ==
    {es[j].k : j \in 1..Len(es)}
    \cup UNION {{es[j].v.kvs[n].k : n \in 1..Len(es[j].v.kvs)} :
                  j \in {i \in 1..Len(es) : es[i].v.t = "Map"}}

\* a key of the parsed Message displayed, and the string given to Key::from_str
KeyRoundTrip ==
    /\ out.t = "Ok"
    /\ step = "idle"
    /\ \E k \in KeysOf(out.body.elems) :
          /\ obj' = [t |-> "Key", k |-> k]
          /\ text' = Key_fmt(k)
          /\ back' = [t |-> "Key", k |-> Key_from_str(Key_fmt(k))]
    /\ step' = "key"
    /\ UNCHANGED <<lit, rep, made, inp, out, bodies, heap, log>>

Next == Parse \/ SerializeBody \/ KeyRoundTrip

Spec == Init /\ [][Next]_vars

-----------------------------------------------------------------------------
(* Properties of Parser::parse, under Spec *)

\* the bytes of the line from position p on
Rest(raw, p) == Slice(raw, p, Len(raw) + 1)

\* out is Err(e(bytes))
IsErr(e, bytes) == out.t = "Err" /\ out.e = e /\ out.bytes = bytes

\* what the result has to be when the header recognizer gave h and the body
\* recognizer gave b
BodyCase(h, b) ==
    IF ~b.ok THEN IsErr("MalformedBody", Rest(inp.raw, h.pos))
    ELSE IF b.pos # Len(inp.raw) + 1 THEN IsErr("TrailingGarbage", Rest(inp.raw, b.pos))
    ELSE out.t = "Ok"

\* what the result has to be when the header recognizer gave h
HeaderCase(h) ==
    IF ~h.ok THEN IsErr("MalformedHeader", inp.raw)
    ELSE BodyCase(h, parse_body(inp.raw, h.pos, h.val.ty, inp.enriched, inp.split_msg))

\* C1: once Parser::parse has been called it has returned exactly the one of Ok,
\* MalformedHeader(whole input), MalformedBody(bytes after the header) and
\* TrailingGarbage(unconsumed remainder) that the recognizers' outcome selects, and
\* never HexDecodeError.
C1_ExactlyOneResult ==
    out.t # "None" => out.e # "HexDecodeError" /\ HeaderCase(parse_header(inp.raw, 1))

\* C2: Parser::parse completes with Ok or with a ParseError value for every input:
\* it never panics.
C2_NeverPanics == out.t \in {"None", "Ok", "Err"}

\* the number a string of decimal digits denotes, in n limbs
Decimal(ds, n) == ParseRadix(ds, 10, ZeroLimbs(n), 1).v

\* SEC * 1000 + MSEC as a number of five limbs, which holds it exactly
ExactTimestamp(sec, msec) ==
    AddLimbs(MulAdd(Decimal(sec, 5), 1000, 0, 1).limbs, Decimal(msec, 5), 0, 1).limbs

\* the id of TYPE: the id of the name, or the number of UNKNOWN[number]
TypeId(ty) ==
    IF EVENT_IDS(ty) # None THEN EVENT_IDS(ty)[1]
    ELSE Decimal(SubSeq(ty, Len(Lit("UNKNOWN[")) + 1, Len(ty) - 1), 2)

\* C3: the Message of a line with the header [node=NODE ]type=TYPE
\* msg=audit(SEC.MSEC:SEQ): has id.timestamp = SEC * 1000 + MSEC, id.sequence = SEQ,
\* node = NODE (None without node=) and ty = the id of TYPE.
C3_HeaderFields ==
    (out.t = "Ok" /\ inp.hdr.built) =>
        /\ Widen(out.id.timestamp, 5) = ExactTimestamp(inp.hdr.sec, inp.hdr.msec)
        /\ out.id.sequence = Decimal(inp.hdr.seq, 2)
        /\ out.node = inp.hdr.node
        /\ out.ty = TypeId(inp.hdr.ty)

\* the entry that the prefix of the body made, if it made one
Synthesized == body_special(inp.raw, parse_header(inp.raw, 1).pos, out.ty).val

\* the line has, at position p, the text of key k and "="
KeyAt(k, p) ==
    IF k.t \in {"Arg", "ArgLen"} THEN tag(Lit("a"), inp.raw, p).ok
    ELSE tag(Key_fmt(k) \o Lit("="), inp.raw, p).ok

\* entries 1..m of the body come in the order their text has in the line
Ordered(m) == \A j \in 1..(m - 1) : out.at[j] < out.at[j + 1]

\* entries 1..m of the body are pairs of the line, in the order of the line
InLineOrder(m) == Ordered(m) /\ \A j \in 1..m : KeyAt(out.body.elems[j].k, out.at[j])

\* the last entry of the body is the synthesized entry s, made of the text before
\* all pairs
SynthesizedLast(s) ==
    /\ Len(out.body.elems) >= 1
    /\ out.body.elems[Len(out.body.elems)].k = s.k
    /\ out.at[Len(out.body.elems)] = s.at
    /\ \A j \in 1..(Len(out.body.elems) - 1) : s.at < out.at[j]

\* C7: the body of an accepted line yields the pairs in the order they have in the
\* line; the entry synthesized from an "avc: granted/denied" prefix or from a
\* "netlabel:" prefix, and no other, is placed last.
C7_LineOrder ==
    out.t = "Ok" =>
        /\ Len(out.at) = Len(out.body.elems)
        /\ IF Synthesized = None THEN InLineOrder(Len(out.body.elems))
           ELSE InLineOrder(Len(out.body.elems) - 1) /\ SynthesizedLast(Synthesized[1])

\* C7 as stated: the pairs come in the order of the line, the only exception being
\* the granted/denied entry of an AVC line, placed last.
C7_OnlyAvcLast ==
    out.t = "Ok" =>
        IF out.ty = MessageTypeOf("AVC") /\ Synthesized # None
        THEN Ordered(Len(out.body.elems) - 1) /\ SynthesizedLast(Synthesized[1])
        ELSE Ordered(Len(out.body.elems))

\* a netlabel line with pairs was accepted: its netlabel entry is in the body
C7_Witness ==
    /\ out.t = "Ok"
    /\ out.ty # MessageTypeOf("AVC")
    /\ Synthesized # None
    /\ Len(out.body.elems) >= 3

-----------------------------------------------------------------------------
(* Specification SpecBody: Body operations on two Body variables *)

Slots == {1, 2}
\* the operations stop when MaxBodies bodies were created, when the arenas of the
\* live bodies have given out MaxGiven slices in all, or one Body has MaxBufs
\* buffers or MaxElems entries
MaxBodies == 2
MaxGiven == 3
MaxBufs == 3
MaxElems == 3

\* n bytes of caller memory (an input line, a buffer of the caller) at address 1
Ext(n, byte) == [addr |-> 1, len |-> n, tok |-> [j \in 1..n |-> byte]]

\* the (Key, Value) pairs the caller pushes: a long string, segments of which one
\* is empty, owned bytes as many as a buffer has left after the long string, a
\* nested string longer than a new buffer; a key that repeats, and the two keys
\* that read "a0"
PushItems == {
    [k |-> KeyName(Lit("k")), v |-> Str(Ext(600, 121), "Double")],
    [k |-> KeyName(Lit("k")), v |-> Segments(<<Ext(0, 0), Ext(1, 118)>>)],
    [k |-> KeyArg(U32(0), None), v |-> Owned([j \in 1..414 |-> 122])],
    [k |-> KeyName(Lit("a0")),
     v |-> List(<<Map(<<[k |-> KeyName(Lit("k")), v |-> Str(Ext(1020, 119), "None")]>>)>>)],
    [k |-> KeyName(Lit("o")),
     v |-> List(<<StringifiedList(<<
               Map(<<[k |-> KeyName(Lit("k")), v |-> Owned(Lit("ls"))]>>)>>)>>)] }

\* the lines the caller parses into a Body
ParseSamples == {
    Header(PlainHdr(Lit("AVC")))
        \o Lit("avc: granted { x } for \n"),
    Header(PlainHdr(Lit("SYSCALL"))) \o Lit("pid=1 a=b\n"),
    Header(PlainHdr(Lit("AVC"))) \o Lit("proctitle=6C73\n") }

\* the names the caller looks up
GetNames == {Lit("k"), Lit("a0"), Lit("msg"), Lit("comm"), Lit("zz")}

\* the predicates the caller gives to retain
RetainKinds == {"not k", "no numbers"}
Keeps(kind, e) ==
    IF kind = "not k" THEN ~Key_eq(e.k, Lit("k"))
    ELSE e.v.t # "Number"

RECURSIVE Norm(_)
\* a value without its addresses: what an entry holds, wherever the bytes are
Norm(v) ==
    IF v.t = "Str" THEN [t |-> "Str", tok |-> v.sl.tok, q |-> v.q]
    ELSE IF v.t = "Owned" THEN [t |-> "Str", tok |-> v.bytes, q |-> "None"]
    ELSE IF v.t \in {"List", "StringifiedList"}
    THEN [t |-> v.t, vs |-> [j \in 1..Len(v.vs) |-> Norm(v.vs[j])]]
    ELSE IF v.t = "Map"
    THEN [t |-> "Map", kvs |-> [j \in 1..Len(v.kvs) |->
                                   [k |-> v.kvs[j].k, v |-> Norm(v.kvs[j].v)]]]
    ELSE IF v.t = "Segments"
    THEN [t |-> "Segments", toks |-> [j \in 1..Len(v.sls) |-> v.sls[j].tok]]
    ELSE v

\* the entries of a Body without their addresses
Entries(elems) == [j \in 1..Len(elems) |-> [k |-> elems[j].k, v |-> Norm(elems[j].v)]]

\* the bound on the history of the arenas
Bounded(bs) ==
    /\ Len(bs[1].given) + Len(bs[2].given) <= MaxGiven
    /\ \A b \in Slots : Len(bs[b].arena) <= MaxBufs /\ Len(bs[b].elems) <= MaxElems

\* how many of the bodies bs are live
Live(bs) == Cardinality({b \in Slots : bs[b].live})

\* the operation leaves the bodies bs, the heap blocks and the expected entries lg
Becomes(bs, blocks, lg) ==
    /\ Bounded(bs)
    /\ bodies' = bs
    /\ heap' = blocks
    /\ log' = lg
    /\ made' = IF Live(bs) > Live(bodies) THEN made + 1 ELSE made
    /\ made' <= MaxBodies
    /\ UNCHANGED <<lit, rep, obj, text, back, step, inp, out>>

\* Body b is now r.body, with the entries es expected in it
Updates(b, r, es) ==
    Becomes([bodies EXCEPT ![b] = r.body], r.heap, [log EXCEPT ![b] = es])

\* let b1 = Body::new()
BodyInit ==
    /\ lit = LitTab
    /\ RepIdle
    /\ bodies = <<Body_new, NoBody>>
    /\ heap = {}
    /\ log = [b \in Slots |-> <<>>]
    /\ made = 1
    /\ ParserIdle
    /\ TextIdle

\* let b = Body::new()
BodyNew(b) ==
    /\ ~bodies[b].live
    /\ Updates(b, [body |-> Body_new, heap |-> heap], <<>>)

\* b.push((k, v)) of a value in caller memory
BodyPush(b) ==
    /\ bodies[b].live
    /\ \E item \in PushItems, moves \in BOOLEAN :
          Updates(b, Body_push(bodies[b], heap, item.k, item.v, moves),
                  Append(log[b], [k |-> item.k, v |-> Norm(item.v)]))

\* b.push(e.clone()) of an entry e of Body c, which may be b itself
BodyPushEntry(b, c) ==
    /\ bodies[b].live /\ bodies[c].live
    /\ \E j \in 1..Len(bodies[c].elems), moves \in BOOLEAN :
          Updates(b, Body_push(bodies[b], heap, bodies[c].elems[j].k,
                               bodies[c].elems[j].v, moves),
                  Append(log[b], log[c][j]))

\* Body b is now r.body and Body c is gone
Extends(b, c, r) ==
    Becomes([bodies EXCEPT ![b] = r.body, ![c] = NoBody], r.heap,
            [log EXCEPT ![b] = log[b] \o log[c], ![c] = <<>>])

\* b.extend(c): c is moved into the call
BodyExtend(b, c) ==
    /\ b # c /\ bodies[b].live /\ bodies[c].live
    /\ \E moves \in BOOLEAN :
          Extends(b, c, Body_extend(bodies[b], bodies[c], heap, moves))

\* b.retain(f)
BodyRetain(b) ==
    /\ bodies[b].live
    /\ \E kind \in RetainKinds :
          Updates(b, [body |-> Body_retain(bodies[b], LAMBDA e : Keeps(kind, e)),
                      heap |-> heap],
                  SelectSeq(log[b], LAMBDA e : Keeps(kind, e)))

\* let c = b.clone()
BodyClone(b, c) ==
    /\ bodies[b].live /\ ~bodies[c].live
    /\ \E moves \in BOOLEAN : Updates(c, Body_clone(bodies[b], heap, moves), log[b])

\* drop(b): its buffers are freed
BodyDrop(b) ==
    /\ bodies[b].live
    /\ Updates(b, [body |-> NoBody,
                   heap |-> heap \ {Block(bodies[b].arena[n]) : n \in 1..Len(bodies[b].arena)}],
               <<>>)

\* the Body of the Message that Parser::parse returned as r
Parses(c, r) ==
    /\ r.res.t = "Ok"
    /\ Updates(c, [body |-> r.res.body, heap |-> r.heap], Entries(r.res.body.elems))

\* let c = Parser::parse(line)?.body; the line is dropped
BodyParse(c) ==
    /\ ~bodies[c].live
    /\ \E line \in ParseSamples, checks \in BOOLEAN, moves \in BOOLEAN :
          Parses(c, Parser_parse(line, TRUE, TRUE, checks, heap, moves))

BodyNext ==
    \/ \E b \in Slots : BodyNew(b)
    \/ \E b \in Slots : BodyPush(b)
    \/ \E b \in Slots, c \in Slots : BodyPushEntry(b, c)
    \/ \E b \in Slots, c \in Slots : BodyExtend(b, c)
    \/ \E b \in Slots : BodyRetain(b)
    \/ \E b \in Slots, c \in Slots : BodyClone(b, c)
    \/ \E b \in Slots : BodyDrop(b)
    \/ \E c \in Slots : BodyParse(c)

SpecBody == BodyInit /\ [][BodyNext]_vars

-----------------------------------------------------------------------------
(* Properties of Body, under SpecBody *)

RECURSIVE SlicesOf(_)
\* the byte slices a value holds, at any depth
SlicesOf(v) ==
    IF v.t = "Str" THEN {v.sl}
    ELSE IF v.t \in {"List", "StringifiedList"}
    THEN UNION {SlicesOf(v.vs[j]) : j \in 1..Len(v.vs)}
    ELSE IF v.t = "Map" THEN UNION {SlicesOf(v.kvs[j].v) : j \in 1..Len(v.kvs)}
    ELSE IF v.t = "Segments" THEN {v.sls[j] : j \in 1..Len(v.sls)}
    ELSE {}

RECURSIVE Contents(_, _)
\* the bytes of a buffer: its chunks from the n-th on, one after the other
Contents(chunks, n) ==
    IF n > Len(chunks) THEN <<>> ELSE chunks[n].tok \o Contents(chunks, n + 1)

\* the used part of buf has the bytes of sl at the address of sl
Holds(buf, sl) ==
    /\ buf.base <= sl.addr
    /\ sl.addr + sl.len <= buf.base + buf.len
    /\ SubSeq(Contents(buf.chunks, 1), sl.addr - buf.base + 1,
              sl.addr - buf.base + sl.len) = sl.tok

\* the buffers of body are allocated, and are buffers of no other live Body
OwnsBuffers(b) ==
    \A n \in 1..Len(bodies[b].arena) :
        /\ Block(bodies[b].arena[n]) \in heap
        /\ \A c \in Slots \ {b} : \A m \in 1..Len(bodies[c].arena) :
              bodies[c].arena[m].base # bodies[b].arena[n].base

\* C8: every byte slice of a Str or Segments value of a Body, at any depth, lies
\* within a buffer of the arena of that Body, whose buffers are its own: the Body
\* is valid without the input line and without the Body it was made from.
C8_SlicesInOwnArena ==
    \A b \in Slots : bodies[b].live =>
        /\ OwnsBuffers(b)
        /\ \A j \in 1..Len(bodies[b].elems) : \A sl \in SlicesOf(bodies[b].elems[j].v) :
              \E n \in 1..Len(bodies[b].arena) : Holds(bodies[b].arena[n], sl)

\* the second Body holds a nested value and the first Body is gone
C8_Witness ==
    /\ ~bodies[1].live /\ bodies[2].live
    /\ \E j \in 1..Len(bodies[2].elems) :
          bodies[2].elems[j].v.t = "List" /\ SlicesOf(bodies[2].elems[j].v) # {}

\* the slice handed out as g is where it was: the buffer it was in has the address
\* and the capacity it had then, and the bytes at the place of the slice
StillThere(body, g) ==
    \E n \in 1..Len(body.arena) :
        /\ body.arena[n].base = g.base
        /\ body.arena[n].cap = g.cap
        /\ body.arena[n].len <= g.cap
        /\ Holds(body.arena[n], g.sl)

\* C9: every slice an arena has handed out still denotes the same bytes at the
\* same address, in a buffer that has the capacity it had when the slice was
\* handed out: no buffer that backs a slice was regrown or overwritten.
C9_GivenSlicesStay ==
    \A b \in Slots : bodies[b].live =>
        \A i \in 1..Len(bodies[b].given) : StillThere(bodies[b], bodies[b].given[i])

\* a buffer was appended to after it gave out a slice, and a later slice that it
\* had no room for went to another buffer
C9_Witness ==
    \E b \in Slots :
        /\ bodies[b].live /\ Len(bodies[b].arena) >= 2
        /\ Len(bodies[b].arena[1].chunks) >= 2
        /\ bodies[b].arena[1].len < bodies[b].arena[1].cap

\* the value get has to give: that of the first of the entries es whose key
\* equals name
FirstOf(es, name) ==
    IF \E j \in 1..Len(es) : Key_eq(es[j].k, name)
    THEN Some(es[MinOf({j \in 1..Len(es) : Key_eq(es[j].k, name)})].v)
    ELSE None

\* what get gave, without its addresses
Got(o) == IF o = None THEN None ELSE Some(Norm(o[1]))

\* C10: a Body yields its entries in the order they were inserted (extend appends
\* the entries of the other Body in their order, retain keeps the order of what it
\* keeps), with the duplicates of a key; len is their number; get(name) gives the
\* value of the first entry whose key equals name, or None.
C10_InsertionOrder ==
    \A b \in Slots : bodies[b].live =>
        /\ Entries(bodies[b].elems) = log[b]
        /\ Body_len(bodies[b]) = Len(log[b])
        /\ \A name \in GetNames : Got(Body_get(bodies[b], name)) = FirstOf(log[b], name)

\* a Body has two entries whose keys both read "a0", with different values
C10_Witness ==
    \E b \in Slots :
        /\ bodies[b].live
        /\ \E i \in 1..Len(log[b]), j \in 1..Len(log[b]) :
              /\ i < j
              /\ Key_eq(log[b][i].k, Lit("a0")) /\ Key_eq(log[b][j].k, Lit("a0"))
              /\ log[b][i].v # log[b][j].v

-----------------------------------------------------------------------------
(* Specification SpecFn: the free function parse(raw, skip_enriched) *)

\* impl Default for Parser
Parser_default == [enriched |-> TRUE, split_msg |-> TRUE]

\* pub fn parse: Parser { enriched: !skip_enriched, ..Parser::default() }.parse(raw)
parse(raw, skip_enriched, checks, blocks, moves) ==
    Parser_parse(raw, ~skip_enriched, Parser_default.split_msg, checks, blocks, moves)

FnInputs ==
    {[raw |-> Header(PlainHdr(ty)) \o b, skip_enriched |-> s] :
        ty \in TypeSamples, b \in BodySamples, s \in BOOLEAN}

FnInit ==
    /\ lit = LitTab
    /\ RepIdle
    /\ inp \in FnInputs
    /\ out = NoResult
    /\ BodyIdle
    /\ TextIdle

\* parse(raw, skip_enriched), in a build with (checks) or without overflow checks
ParseFn ==
    /\ out = NoResult
    /\ \E checks \in BOOLEAN, moves \in BOOLEAN :
          Returns(parse(inp.raw, inp.skip_enriched, checks, heap, moves))
    /\ UNCHANGED <<lit, rep, made, obj, text, back, step, inp, bodies, log>>

FnNext == ParseFn

SpecFn == FnInit /\ [][FnNext]_vars

\* C11: the value that parse(raw, skip_enriched) returns for key msg is never a
\* Value::Map.
C11_FnNeverMap ==
    out.t = "Ok" =>
        \A j \in 1..Len(out.body.elems) :
            Key_eq(out.body.elems[j].k, Lit("msg")) => out.body.elems[j].v.t # "Map"

-----------------------------------------------------------------------------
(* Properties of the Parser's options, under Spec *)

\* Parser { enriched, split_msg }.parse(inp.raw): what the other settings return
WithOptions(enriched, split_msg) ==
    Parser_parse(inp.raw, enriched, split_msg, FALSE, {}, FALSE).res

\* the entries of a result without their addresses; none when it is no Message
EntriesOf(r) == IF r.t = "Ok" THEN Entries(r.body.elems) ELSE <<>>

\* the n-th space of s, counted from index i: its index (Len(s) + 1 past the last)
SpaceAt(s, i, n) ==
    LET sp == {k \in i..Len(s) : s[k] = 32}
    IN  IF n < 1 THEN i - 1
        ELSE IF n > Cardinality(sp) THEN Len(s) + 1
        ELSE CHOOSE k \in sp : Cardinality({m \in sp : m < k}) = n - 1

\* the pieces of s between single spaces, from index i on; acc is the piece so far
Pieces(s, i, acc) ==
    [n \in 1..(Cardinality({k \in i..Len(s) : s[k] = 32}) + 1) |->
        (IF n = 1 THEN acc ELSE <<>>)
        \o Slice(s, SpaceAt(s, i, n - 1) + 1, SpaceAt(s, i, n))]

\* the text of a piece before its first "=", empty when it has none
NameOf(piece) ==
    IF FindSub(Lit("="), piece, 1) = 0 THEN <<>>
    ELSE Slice(piece, 1, FindSub(Lit("="), piece, 1))

\* content has the form k1=v1 k2=v2 ...: each piece between spaces is a name of
\* letters, "=" and a value
PairsForm(content) ==
    /\ content # <<>>
    /\ \A n \in 1..Len(Pieces(content, 1, <<>>)) :
          /\ NameOf(Pieces(content, 1, <<>>)[n]) # <<>>
          /\ \A c \in 1..Len(NameOf(Pieces(content, 1, <<>>)[n])) :
                NameOf(Pieces(content, 1, <<>>)[n])[c] \in Alpha

\* v is a Map with one entry per piece of content, keyed by the pieces' names in order
MapOf(v, content) ==
    /\ v.t = "Map"
    /\ Len(v.kvs) = Len(Pieces(content, 1, <<>>))
    /\ \A n \in 1..Len(v.kvs) : Key_fmt(v.kvs[n].k) = NameOf(Pieces(content, 1, <<>>)[n])

\* entry v of a result with split_msg and entry w of the result without, for one pair
SplitOrSame(k, v, w) ==
    IF ~Key_eq(k, Lit("msg")) THEN v = w
    ELSE (w.t = "Str" /\ w.q = "Single" /\ PairsForm(w.tok)) => MapOf(v, w.tok)

\* result a with split_msg and result b without differ in the values of msg only
OnlyMsgDiffers(a, b) ==
    /\ a.t = b.t /\ a.e = b.e /\ a.bytes = b.bytes
    /\ a.node = b.node /\ a.ty = b.ty /\ a.id = b.id
    /\ Len(EntriesOf(a)) = Len(EntriesOf(b))
    /\ \A j \in 1..Len(EntriesOf(a)) :
          /\ EntriesOf(a)[j].k = EntriesOf(b)[j].k
          /\ SplitOrSame(EntriesOf(a)[j].k, EntriesOf(a)[j].v, EntriesOf(b)[j].v)

\* C12: the result of a line with split_msg and its result without split_msg are
\* the same but for the values of key msg; a msg value 'k1=v1 k2=v2 ...' is a Map of
\* the inner pairs in order with split_msg, and without it the string between the
\* single quotes.
C12_SplitMsgOnlyMsg ==
    out.t \in {"Ok", "Err"} =>
        IF inp.split_msg THEN OnlyMsgDiffers(out, WithOptions(inp.enriched, FALSE))
        ELSE OnlyMsgDiffers(WithOptions(inp.enriched, TRUE), out)

\* C12 for the lines that both settings accept or both reject
C12_SplitMsgWhenBothAgree ==
    (out.t \in {"Ok", "Err"} /\ out.t = WithOptions(inp.enriched, ~inp.split_msg).t)
        => C12_SplitMsgOnlyMsg

\* the index of the first 0x1d of the line, 0 when it has none
FirstGS ==
    IF \A k \in 1..Len(inp.raw) : inp.raw[k] # GS[1] THEN 0
    ELSE MinOf({k \in 1..Len(inp.raw) : inp.raw[k] = GS[1]})

\* the line up to its first 0x1d: the header and the body B alone
BeforeGS == SubSeq(inp.raw, 1, FirstGS - 1)

\* the bytes after the first 0x1d are non-newline bytes and at most a final newline
RunToLineEnd ==
    \A n \in (FirstGS + 1)..(Len(inp.raw) - 1) : inp.raw[n] # 10

\* what Parser { enriched: false, split_msg }.parse gives for a line
Unenriched(line) == Parser_parse(line, FALSE, inp.split_msg, FALSE, {}, FALSE).res

\* the line is B, 0x1d, and a run to the line's end, for a B that is accepted alone
SuffixCase ==
    /\ out.t \in {"Ok", "Err"}
    /\ FirstGS # 0
    /\ RunToLineEnd
    /\ Unenriched(BeforeGS).t = "Ok"

\* C13: without enriched, a line B 0x1d run [newline], for a body B that is accepted
\* alone, is accepted with the entries of B alone; with enriched, the pairs after
\* the 0x1d are entries of the body.
C13_SuffixDiscarded ==
    SuffixCase =>
        IF inp.enriched
        THEN out.t = "Ok" => \E j \in 1..Len(out.at) : out.at[j] > FirstGS
        ELSE out.t = "Ok" /\ EntriesOf(out) = EntriesOf(Unenriched(BeforeGS))

\* C13 for a run of at least one byte, against the line B newline
C13_SuffixDiscardedNonEmpty ==
    (SuffixCase /\ FirstGS < Len(inp.raw) /\ inp.raw[FirstGS + 1] # 10) =>
        IF inp.enriched
        THEN out.t = "Ok" => \E j \in 1..Len(out.at) : out.at[j] > FirstGS
        ELSE out.t = "Ok" /\ EntriesOf(out) = EntriesOf(Unenriched(BeforeGS \o NL))

\* the type of number the parser reads for key k in a message of type ty
NumericKind(ty, k) ==
    IF k.t = "Arg" THEN (IF ty = MessageTypeOf("SYSCALL") /\ k.y = None THEN "hex" ELSE "none")
    ELSE IF k.t \in {"NameUID", "NameGID"} THEN "dec"
    ELSE IF k.t # "Common" THEN "none"
    ELSE IF COMMON[k.c] \in {Lit("arch"), Lit("cap_fi"), Lit("cap_fp"), Lit("cap_fver")} THEN "hex"
    ELSE IF COMMON[k.c] \in {Lit("argc"), Lit("exit"), Lit("cap_fe"), Lit("inode"), Lit("item"),
                             Lit("items"), Lit("pid"), Lit("ppid"), Lit("ses"), Lit("syscall")}
    THEN "dec"
    ELSE IF COMMON[k.c] = Lit("mode") THEN "oct"
    ELSE "none"

DigitsOf(kind) == IF kind = "hex" THEN HexDigit ELSE IF kind = "oct" THEN OctDigit ELSE Digit
RadixOf(kind) == IF kind = "hex" THEN 16 ELSE IF kind = "oct" THEN 8 ELSE 10

\* the text of the value of entry j in the line: from after "key=" to the separator
ValueText(j) ==
    Slice(inp.raw, out.at[j] + Len(Key_fmt(out.body.elems[j].k)) + 1,
          RunEnd(Byte \ Sep, inp.raw, out.at[j] + Len(Key_fmt(out.body.elems[j].k)) + 1))

\* txt is a run of digits of the kind
DigitRun(txt, kind) == txt # <<>> /\ \A n \in 1..Len(txt) : txt[n] \in DigitsOf(kind)

\* the number a digit run denotes, in six limbs, which hold it exactly
Exact(txt, kind) == ParseRadix(txt, RadixOf(kind), ZeroLimbs(6), 1).v

\* the number fits the type of the kind: u64 for hex and oct, i64 for dec
FitsKind(v, kind) == v[5] = 0 /\ v[6] = 0 /\ (kind = "dec" => v[4] < 2^15)

\* entry j is a digit run too large for the type of its field
Overflows(j) ==
    /\ NumericKind(out.ty, out.body.elems[j].k) # "none"
    /\ DigitRun(ValueText(j), NumericKind(out.ty, out.body.elems[j].k))
    /\ ~FitsKind(Exact(ValueText(j), NumericKind(out.ty, out.body.elems[j].k)),
                 NumericKind(out.ty, out.body.elems[j].k))

\* the line is a header and a body of numeric pairs, in a type with no special keys
OverflowLine ==
    /\ out.t \in {"Ok", "Err"}
    /\ inp.hdr.built
    /\ inp.hdr.ty # Lit("EXECVE")
    /\ \E b \in OverflowBodies : inp.raw = Header(inp.hdr) \o b

\* the pairs of the body of the line, as text
PairsText == Pieces(Slice(inp.raw, Len(Header(inp.hdr)) + 1, Len(inp.raw)), 1, <<>>)

ValueStart(j) == out.at[j] + Len(Key_fmt(out.body.elems[j].k)) + 1

\* the end of an optional "=" and a run of safe characters from index p
SafeEnd(p) ==
    RunEnd(SafeChr, inp.raw, IF p <= Len(inp.raw) /\ inp.raw[p] = 61 THEN p + 1 ELSE p)

\* the end of an identifier [A-Za-z_][A-Za-z0-9_]* from index p, p when there is none
IdentEnd(p) ==
    IF p <= Len(inp.raw) /\ inp.raw[p] \in Alpha \cup {95}
    THEN RunEnd(AlphaNum \cup {95}, inp.raw, p + 1) ELSE p

\* the end of the text of the form [=] safe characters [ (ident)] from index p
SubjEnd(p) ==
    IF /\ tag(Lit(" ("), inp.raw, SafeEnd(p)).ok
       /\ IdentEnd(SafeEnd(p) + 2) > SafeEnd(p) + 2
       /\ tag(Lit(")"), inp.raw, IdentEnd(SafeEnd(p) + 2)).ok
    THEN IdentEnd(SafeEnd(p) + 2) + 1
    ELSE SafeEnd(p)

\* entry j is a subj pair whose value is no encoded value
SubjSalvaged(j) ==
    /\ Key_eq(out.body.elems[j].k, Lit("subj"))
    /\ ~parse_encoded(inp.raw, ValueStart(j)).ok

\* the line is a header and one of the subj bodies s
SubjLine(s) == out.t \in {"Ok", "Err"} /\ inp.hdr.built /\ inp.raw = Header(inp.hdr) \o s.b

\* C15: a subj value that is no encoded value and reads [=] safe characters
\* [ (ident)] is the entry Str(that text, Quote::None), in every type; the line is
\* accepted and the pairs after it are entries.
C15_SubjSalvage ==
    /\ out.t = "Ok" =>
          \A j \in 1..Len(out.body.elems) :
              SubjSalvaged(j) =>
                  EntriesOf(out)[j].v =
                      [t |-> "Str", q |-> "None",
                       tok |-> Slice(inp.raw, ValueStart(j), SubjEnd(ValueStart(j)))]
    /\ \A s \in SubjSamples :
          SubjLine(s) => out.t = "Ok" /\ Len(out.body.elems) = s.n

\* a subj value with the leading "=" and the trailing " (ident)", and a pair after it
C15_Witness ==
    /\ out.t = "Ok"
    /\ \E j \in 1..(Len(out.body.elems) - 1) :
          /\ SubjSalvaged(j)
          /\ inp.raw[ValueStart(j)] = 61
          /\ inp.raw[SubjEnd(ValueStart(j)) - 1] = 41
          /\ out.at[j + 1] = SubjEnd(ValueStart(j)) + 1

\* where the body of the line starts: after the header
BodyStart == parse_header(inp.raw, 1).pos

\* the index after the spaces and tabs from index p
Spaces(p) == RunEnd(Space, inp.raw, p)

\* the index after the text t and the spaces after it, 0 when t is not at index p
After(t, p) == IF p # 0 /\ tag(t, inp.raw, p).ok THEN Spaces(p + Len(t)) ELSE 0

\* granted or denied, whichever is at index p, or neither
Verdict(p) ==
    IF After(Lit("granted"), p) # 0 THEN Lit("granted")
    ELSE IF After(Lit("denied"), p) # 0 THEN Lit("denied")
    ELSE <<>>

RECURSIVE IdentList(_, _)
\* the identifiers from index p on, each with the spaces after it: where they end,
\* and their texts
IdentList(p, acc) ==
    IF p = 0 \/ IdentEnd(p) = p THEN [pos |-> p, ids |-> acc]
    ELSE IdentList(Spaces(IdentEnd(p)), Append(acc, Slice(inp.raw, p, IdentEnd(p))))

\* the index after "{ ident ident ... } for " from index p, 0 when it is not there
BracesEnd(p) ==
    IF IdentList(After(Lit("{"), p), <<>>).ids = <<>> THEN 0
    ELSE After(Lit("for"), After(Lit("}"), IdentList(After(Lit("{"), p), <<>>).pos))

\* the index after the prefix "avc: (granted|denied) { ident ... } for " of the
\* body, 0 when the body has no such prefix
AvcEnd ==
    IF Verdict(After(Lit("avc:"), BodyStart)) = <<>> THEN 0
    ELSE BracesEnd(After(Verdict(After(Lit("avc:"), BodyStart)), After(Lit("avc:"), BodyStart)))

\* the identifiers between the braces of the prefix
AvcIdents ==
    IdentList(After(Lit("{"), After(Verdict(After(Lit("avc:"), BodyStart)),
                                    After(Lit("avc:"), BodyStart))), <<>>).ids

\* the entry the prefix has to make
AvcEntry ==
    [k |-> KeyName(Verdict(After(Lit("avc:"), BodyStart))),
     v |-> [t |-> "List",
            vs |-> [n \in 1..Len(AvcIdents) |->
                       [t |-> "Str", tok |-> AvcIdents[n], q |-> "None"]]]]

\* C16: an AVC body with the prefix "avc: (granted|denied) { ident ... } for " yields
\* one entry Name(granted|denied) -> List of Str(ident, Quote::None) in order, as
\* the last entry after the entries of the pairs; an AVC body without the prefix
\* yields the entries of its pairs only.
C16_AvcPrefix ==
    (out.t = "Ok" /\ out.ty = MessageTypeOf("AVC")) =>
        IF AvcEnd = 0 THEN InLineOrder(Len(out.body.elems))
        ELSE /\ Len(out.body.elems) >= 1
             /\ EntriesOf(out)[Len(out.body.elems)] = AvcEntry
             /\ InLineOrder(Len(out.body.elems) - 1)
             /\ \A j \in 1..(Len(out.body.elems) - 1) : out.at[j] >= AvcEnd

\* an AVC line with a prefix of two identifiers and two pairs
C16_Witness ==
    /\ out.t = "Ok"
    /\ out.ty = MessageTypeOf("AVC")
    /\ AvcEnd # 0
    /\ Len(AvcIdents) >= 2
    /\ Len(out.body.elems) >= 3


-----------------------------------------------------------------------------
(* Serializing the Body of a parsed Message, under Spec *)

\* the kind of token the Value contract gives a value
Contract(v) ==
    CASE v.t = "Empty" -> {"Unit"}
      [] v.t \in {"Str", "Owned", "Segments"} -> {"Bytes"}
      [] v.t = "Number" -> {"I64", "Str"}
      [] v.t \in {"List", "StringifiedList"} -> {"Seq"}
      [] v.t = "Map" -> {"Map"}

\* the entries of the emitted map are the elements es, one each and in order
EntryPerElement(es) ==
    /\ text.t = "Map"
    /\ Len(text.kvs) = Len(es)
    /\ \A j \in 1..Len(es) :
          /\ text.kvs[j].k = String(Key_fmt(es[j].k))
          /\ text.kvs[j].v.t \in Contract(es[j].v)
          /\ text.kvs[j].v = Value_serialize(es[j].v)

\* the line is an EXECVE line with the body `argc=0 a0="whoami"`
WhoamiLine ==
    inp.raw = Header(PlainHdr(Lit("EXECVE"))) \o Lit("argc=0 a0=\"whoami\"\n")

\* the two entries argc -> 0 and a0 -> bytes `whoami`
WhoamiEntries ==
    <<[k |-> String(Lit("argc")), v |-> I64(FALSE, U64(0))],
      [k |-> String(Lit("a0")), v |-> Bytes(Lit("whoami"))]>>

\* C17: serializing a Body emits a map with one entry per element of the Body, in
\* iteration order, each key as its display string and each value by the Value
\* contract; the body of the EXECVE line `argc=0 a0="whoami"` serializes to the
\* entries argc -> 0 and a0 -> bytes `whoami`
C17_SerializeBody ==
    step = "serialized" =>
        /\ EntryPerElement(out.body.elems)
        /\ WhoamiLine => text.kvs = WhoamiEntries

\* what does hold: the map has one entry per element whose key is no aN, aN[M] or
\* aN_len, in iteration order
C17_SerializeOtherKeys ==
    step = "serialized" => EntryPerElement(SelectSeq(out.body.elems, Serialized))

\* a serialized body with an argument key among its elements
C17_ArgSkipped ==
    /\ step = "serialized"
    /\ WhoamiLine
    /\ \E j \in 1..Len(out.body.elems) : ~Serialized(out.body.elems[j])

-----------------------------------------------------------------------------
(* Keys of a parsed Message through Display and FromStr, under Spec *)

\* C18: for every Key the parser emits (Name, NameUID, NameGID, Common, Arg,
\* ArgLen), Key::from_str of the key's display string is a Key equal to it: the
\* same variant with the same content
C18_KeyRoundTrip ==
    step = "key" =>
        /\ obj.k.t \in {"Name", "NameUID", "NameGID", "Common", "Arg", "ArgLen"}
        /\ back.k = obj.k

\* the name reads as aN, aN[M] or aN_len
ArgLike(k) == k.t \in {"Name", "NameUID", "NameGID"} /\ try_parse_a(k.n) # None

\* what does hold: the key is read back unless it is a name that reads as aN,
\* aN[M] or aN_len, and such a name is read back as Arg or ArgLen of the
\* same display string
C18_KeyRoundTripOthers ==
    step = "key" =>
        /\ Key_fmt(back.k) = text
        /\ IF ArgLike(obj.k) THEN back.k.t \in {"Arg", "ArgLen"} ELSE back.k = obj.k

\* a key of each variant has been read back
C18_Variants ==
    step = "key" /\ obj.k.t \in {"Arg", "ArgLen"} /\ back.k = obj.k /\ ~IsZero(obj.k.x)

-----------------------------------------------------------------------------
(* The enriched switch on lines without the byte 0x1d, under Spec *)

\* the line has no 0x1d byte
NoGS(line) == \A k \in 1..Len(line) : line[k] # GS[1]

\* both results are Messages or neither is, and two Messages have equal id,
\* node, type and body entries
SameMessage(a, b) ==
    /\ (a.t = "Ok") <=> (b.t = "Ok")
    /\ a.t = "Ok" =>
          /\ a.id = b.id
          /\ a.node = b.node
          /\ a.ty = b.ty
          /\ EntriesOf(a) = EntriesOf(b)

\* C19: for every line without a 0x1d byte, Parser { enriched: false } and
\* Parser { enriched: true } with the same split_msg agree: the line is accepted by
\* both or by neither, and the two Messages have equal id, node, type and body
\* entries
C19_EnrichedSameWithoutGS ==
    (out # NoResult /\ NoGS(inp.raw)) =>
        SameMessage(WithOptions(FALSE, inp.split_msg), WithOptions(TRUE, inp.split_msg))

\* the pairs of the line are separated by single spaces only
SingleSpaces(line) ==
    \A k \in 1..(Len(line) - 1) : ~(line[k] = 32 /\ line[k + 1] = 32)

\* what does hold: the two settings agree on the lines without 0x1d whose spaces
\* are single
C19_EnrichedSameSingleSpaces ==
    (out # NoResult /\ NoGS(inp.raw) /\ SingleSpaces(inp.raw)) =>
        SameMessage(WithOptions(FALSE, inp.split_msg), WithOptions(TRUE, inp.split_msg))

-----------------------------------------------------------------------------
(* The capacity of a new arena buffer, under SpecBody *)

\* the buffers of the live bodies
ArenaBufs ==
    UNION {{bodies[b].arena[n] : n \in 1..Len(bodies[b].arena)} :
             b \in {s \in Slots : bodies[s].live}}

\* the length of the slice a buffer was allocated for: the first one appended
FirstLen(buf) == buf.chunks[1].len

\* 1024 * (1 + ceil(len / 1024))
CeilCapacity(len) == 1024 * (1 + ((len + 1023) \div 1024))

\* C20: a buffer that push allocates for a slice of length len that fits no
\* buffer has the capacity 1024 * (1 + ceil(len / 1024)), which is at least
\* len + 1, and the slice is appended without the buffer growing: the buffer still
\* has that capacity
C20_NewBufferCapacity ==
    \A buf \in ArenaBufs :
        /\ buf.cap = CeilCapacity(FirstLen(buf))
        /\ buf.cap >= FirstLen(buf) + 1

\* the capacity add_slice asks for
AskedCapacity(len) == 1014 * (1 + (len \div 1024))

\* what does hold: the buffer is allocated with 1014 * (1 + floor(len / 1024)) and
\* has grown to max(twice that, len) when the slice is longer
C20_NewBufferAsCoded ==
    \A buf \in ArenaBufs :
        buf.cap = IF FirstLen(buf) <= AskedCapacity(FirstLen(buf))
                  THEN AskedCapacity(FirstLen(buf))
                  ELSE Max(2 * AskedCapacity(FirstLen(buf)), FirstLen(buf))

\* a buffer that had to grow for the slice it was allocated for
C20_Grown ==
    \E buf \in ArenaBufs : FirstLen(buf) > AskedCapacity(FirstLen(buf))

-----------------------------------------------------------------------------
(* Body::push of slices that are in the arena already, under SpecBody *)

\* the address range of sl lies inside the used part of a buffer of the arena; the
\* range may end where the used bytes end, and may be empty
InsideUsed(arena, sl) ==
    \E n \in 1..Len(arena) :
        arena[n].base <= sl.addr /\ sl.addr + sl.len <= arena[n].base + arena[n].len

\* the step is b.push(e.clone())
PushOf(b, e) ==
    \E moves \in BOOLEAN : bodies'[b] = Body_push(bodies[b], heap, e.k, e.v, moves).body

\* the step left the buffers of b as they were, and the value stored last is at addr
ReusedInPlace(b, addr) ==
    /\ bodies'[b].arena = bodies[b].arena
    /\ bodies'[b].elems[Len(bodies'[b].elems)].v.sl.addr = addr

\* the entries of the live bodies that are strings
StrEntries ==
    UNION {{bodies[c].elems[j] : j \in {i \in 1..Len(bodies[c].elems) :
                                          bodies[c].elems[i].v.t = "Str"}} :
             c \in {s \in Slots : bodies[s].live}}

\* C21: when push receives a slice whose address range lies inside the used part
\* of a buffer of the arena (also one that ends where the used bytes end, also an
\* empty one), the slice is reused in place: the buffers, their lengths and their
\* contents are unchanged and the stored value refers to the same addresses
C21_ReusedInPlace ==
    [][\A b \in {s \in Slots : bodies[s].live} : \A e \in StrEntries :
          (InsideUsed(bodies[b].arena, e.v.sl) /\ PushOf(b, e))
              => ReusedInPlace(b, e.v.sl.addr)]_vars

\* what does hold: a slice whose start and end are both before the end of the used
\* bytes of one buffer is reused in place
C21_ReusedWhenEndInside ==
    [][\A b \in {s \in Slots : bodies[s].live} : \A e \in StrEntries :
          (Own(bodies[b].arena, e.v.sl) # {} /\ PushOf(b, e))
              => ReusedInPlace(b, e.v.sl.addr)]_vars

-----------------------------------------------------------------------------
(* Body::extend, under SpecBody *)

\* the step is b.extend(c)
ExtendOf(b, c) ==
    /\ bodies'[c] = NoBody
    /\ \E moves \in BOOLEAN :
          bodies'[b] = Body_extend(bodies[b], bodies[c], heap, moves).body

\* the arena of b is now its buffers followed by those of c, as they were, with no
\* new allocation, and the entries of c follow those of b with their addresses
Absorbed(b, c) ==
    /\ bodies'[b].arena = bodies[b].arena \o bodies[c].arena
    /\ heap' = heap
    /\ bodies'[b].elems = bodies[b].elems \o bodies[c].elems

\* the pairs of two different live bodies
LivePairs ==
    {p \in Slots \X Slots : p[1] # p[2] /\ bodies[p[1]].live /\ bodies[p[2]].live}

\* C22: extend(other) absorbs the arena of other without recopying: the arena is
\* then the buffers of the receiver followed by those of other, no buffer has
\* grown and none was allocated, and every Str slice of the absorbed entries is at
\* the address it had in the arena of other
C22_ExtendAbsorbs ==
    [][\A p \in LivePairs : ExtendOf(p[1], p[2]) => Absorbed(p[1], p[2])]_vars

\* every slice of the entries of c lies, both ends, before the end of the used
\* bytes of a buffer of c
AllEndInside(c) ==
    \A j \in 1..Len(bodies[c].elems) : \A sl \in SlicesOf(bodies[c].elems[j].v) :
        Own(bodies[c].arena, sl) # {}

\* what does hold: the arena of other is absorbed as it is when no slice of its
\* entries ends where the used bytes of its buffer end
C22_ExtendAbsorbsEndInside ==
    [][\A p \in LivePairs :
          (ExtendOf(p[1], p[2]) /\ AllEndInside(p[2])) => Absorbed(p[1], p[2])]_vars

-----------------------------------------------------------------------------
(* The value of a Common key, under Spec *)

\* the recognizer a keyword selects
KeywordKind(name) ==
    IF name \in {Lit("arch"), Lit("cap_fi"), Lit("cap_fp"), Lit("cap_fver")} THEN "hex"
    ELSE IF name \in {Lit("argc"), Lit("exit"), Lit("cap_fe"), Lit("inode"), Lit("item"),
                      Lit("items"), Lit("pid"), Lit("ppid"), Lit("ses"), Lit("syscall")}
    THEN "dec"
    ELSE IF name = Lit("mode") THEN "oct"
    ELSE IF name \in {Lit("success"), Lit("cwd"), Lit("dev"), Lit("tty"), Lit("comm"),
                      Lit("exe"), Lit("name"), Lit("nametype"), Lit("subj"), Lit("key")}
    THEN "encoded"
    ELSE "msg"

\* what the recognizer of the kind gives at index p of the line
Recognized(kind, p) ==
    CASE kind = "hex" -> parse_hex(inp.raw, p)
      [] kind = "dec" -> parse_dec(inp.raw, p)
      [] kind = "oct" -> parse_oct(inp.raw, p)
      [] OTHER -> parse_encoded(inp.raw, p)

\* a value of the kind: the Number of its radix, anything encoded
OfKind(v, kind) ==
    CASE kind = "hex" -> v.t = "Number" /\ v.n.b = "Hex"
      [] kind = "dec" -> v.t = "Number" /\ v.n.b = "Dec"
      [] kind = "oct" -> v.t = "Number" /\ v.n.b = "Oct"
      [] OTHER -> v.t \in {"Str", "Owned", "Empty"}

\* the entries of the Message whose key is a Common keyword other than msg
KeywordEntries ==
    {j \in 1..Len(out.body.elems) :
        /\ out.body.elems[j].k.t = "Common"
        /\ COMMON[out.body.elems[j].k.c] # Lit("msg")}

\* the name and the kind of the keyword of entry j
KeywordOf(j) == COMMON[out.body.elems[j].k.c]
KindOf(j) == KeywordKind(KeywordOf(j))

\* entry j has the value of the recognizer of its keyword where that matches, and
\* the value of the unspecified-value parser at the same index where it does not
ByKeyword(j) ==
    IF Recognized(KindOf(j), ValueStart(j)).ok
    THEN /\ OfKind(Recognized(KindOf(j), ValueStart(j)).val, KindOf(j))
         /\ Norm(out.body.elems[j].v) = Norm(Recognized(KindOf(j), ValueStart(j)).val)
    ELSE /\ parse_unspec_value(inp.raw, ValueStart(j), out.ty, KeywordOf(j)).ok
         /\ Norm(out.body.elems[j].v)
              = Norm(parse_unspec_value(inp.raw, ValueStart(j), out.ty, KeywordOf(j)).val)

-----------------------------------------------------------------------------
(* The encoded recognizer, under Spec *)

\* the index after a double-quoted string of safe characters at p, 0 when none
DqSafeEnd(p) ==
    IF /\ p <= Len(inp.raw) /\ inp.raw[p] = 34
       /\ RunEnd(SafeChr, inp.raw, p + 1) <= Len(inp.raw)
       /\ inp.raw[RunEnd(SafeChr, inp.raw, p + 1)] = 34
    THEN RunEnd(SafeChr, inp.raw, p + 1) + 1 ELSE 0

\* the index after the hex digit pairs at p
PairsEnd(p) == p + 2 * ((RunEnd(HexDigit, inp.raw, p) - p) \div 2)

\* the index after "(null)" or "?" at p, 0 when none
NullEnd(p) ==
    IF p + 5 <= Len(inp.raw) /\ Slice(inp.raw, p, p + 6) = Lit("(null)") THEN p + 6
    ELSE IF p <= Len(inp.raw) /\ inp.raw[p] = 63 THEN p + 1
    ELSE 0

\* a separator is at index e
SepAt(e) == e <= Len(inp.raw) /\ inp.raw[e] \in Sep

\* the byte that two hex digits denote
HexByte(hi, lo) == 16 * DigitVal(hi) + DigitVal(lo)

\* the value the encoded recognizer gives at p: that of the first of the three
\* alternatives that matches, <<>> when none does; dq and sep say whether the
\* quoted alternative and the two others need a separator after the match
EncodedValue(p, dq, sep) ==
    IF DqSafeEnd(p) # 0 /\ (dq => SepAt(DqSafeEnd(p)))
    THEN <<[t |-> "Str", tok |-> Slice(inp.raw, p + 1, DqSafeEnd(p) - 1), q |-> "Double"]>>
    ELSE IF PairsEnd(p) > p /\ (sep => SepAt(PairsEnd(p)))
    THEN <<[t |-> "Str", q |-> "None",
            tok |-> [n \in 1..((PairsEnd(p) - p) \div 2) |->
                       HexByte(inp.raw[p + 2 * n - 2], inp.raw[p + 2 * n - 1])]]>>
    ELSE IF NullEnd(p) # 0 /\ (sep => SepAt(NullEnd(p)))
    THEN <<[t |-> "Empty"]>>
    ELSE <<>>

\* the entries whose value is read by the encoded recognizer alone: the aN and
\* aN[M] pairs of an EXECVE line
EncodedEntries ==
    {j \in 1..Len(out.body.elems) :
        out.ty = MessageTypeOf("EXECVE") /\ out.body.elems[j].k.t = "Arg"}

\* C24: the encoded recognizer tries in order, the first match winning: a
\* double-quoted string of safe characters, Str(content, Double); one or more
\* hex digit pairs, the decoded bytes; "(null)" or "?", Empty; and each of the
\* three only when a separator follows the matched text
C24_EncodedAlternatives ==
    out.t = "Ok" =>
        \A j \in EncodedEntries :
            <<Norm(out.body.elems[j].v)>> = EncodedValue(ValueStart(j), TRUE, TRUE)

\* what does hold: the same with no condition on what follows the double-quoted
\* string
C24_EncodedAsCoded ==
    out.t = "Ok" =>
        \A j \in EncodedEntries :
            <<Norm(out.body.elems[j].v)>> = EncodedValue(ValueStart(j), FALSE, TRUE)

\* decoded bytes, an Empty and a quoted string among the values of one line
C24_AllThree ==
    /\ out.t = "Ok"
    /\ \E j \in EncodedEntries : out.body.elems[j].v.t = "Empty"
    /\ \E j \in EncodedEntries :
          out.body.elems[j].v.t = "Str" /\ out.body.elems[j].v.q = "None"

-----------------------------------------------------------------------------
(* The unspecified-value parser, under Spec *)

\* the recognized range r of the line as a Str of quote q
StrOfRange(r, q) == <<[t |-> "Str", tok |-> Slice(inp.raw, r.val[1], r.val[2]), q |-> q]>>

\* the value the alternatives of the unspecified-value parser give at p, in their
\* order, <<>> when none matches; sep says whether the unquoted run and the empty
\* value need a separator after them
UnspecValue(p, sep) ==
    IF RunEnd(SafeUnquotedChr, inp.raw, p) > p
       /\ (sep => SepAt(RunEnd(SafeUnquotedChr, inp.raw, p)))
    THEN <<[t |-> "Str", q |-> "None",
            tok |-> Slice(inp.raw, p, RunEnd(SafeUnquotedChr, inp.raw, p))]>>
    ELSE IF parse_kv_sq(inp.raw, p).ok THEN StrOfRange(parse_kv_sq(inp.raw, p), "Single")
    ELSE IF parse_str_sq(inp.raw, p).ok THEN StrOfRange(parse_str_sq(inp.raw, p), "Single")
    ELSE IF parse_str_dq(inp.raw, p).ok THEN StrOfRange(parse_str_dq(inp.raw, p), "Double")
    ELSE IF parse_kv_braced(inp.raw, p).ok
    THEN StrOfRange(parse_kv_braced(inp.raw, p), "Braces")
    ELSE IF parse_str_braced(inp.raw, p).ok
    THEN StrOfRange(parse_str_braced(inp.raw, p), "Braces")
    ELSE IF sep => SepAt(p) THEN <<[t |-> "Empty"]>>
    ELSE <<>>

\* the delimiters of a quote
OpenOf(q) ==
    CASE q = "Single" -> Lit("'") [] q = "Double" -> Lit("\"") [] q = "Braces" -> Lit("{ ")
      [] OTHER -> <<>>
CloseOf(q) == IF q = "Braces" THEN Lit(" }") ELSE OpenOf(q)

\* v is the text between the delimiters of its quote, which are in the line at p
Delimited(v, p) ==
    v.t = "Str" =>
        inp.raw = Slice(inp.raw, 1, p) \o OpenOf(v.q) \o v.tok \o CloseOf(v.q)
                  \o Slice(inp.raw, p + Len(OpenOf(v.q)) + Len(v.tok) + Len(CloseOf(v.q)),
                           Len(inp.raw) + 1)

\* no typed recognizer matches at p
Untyped(p) ==
    /\ ~parse_hex(inp.raw, p).ok /\ ~parse_dec(inp.raw, p).ok
    /\ ~parse_oct(inp.raw, p).ok /\ ~parse_encoded(inp.raw, p).ok

\* the key of entry j has a salvage branch in this type
Salvaged(j) ==
    \/ Key_eq(out.body.elems[j].k, Lit("subj"))
    \/ out.ty = MessageTypeOf("AVC") /\ Key_eq(out.body.elems[j].k, Lit("info"))
    \/ out.ty = MessageTypeOf("SOCKADDR") /\ Key_eq(out.body.elems[j].k, Lit("SADDR"))

\* the entries whose value is left to the alternatives of the unspecified-value
\* parser: pairs of the line with a name as key, no salvage branch, and a value
\* that no typed recognizer matches
UnspecEntries ==
    {j \in 1..Len(out.body.elems) :
        /\ out.body.elems[j].k.t \in {"Name", "NameUID", "NameGID", "Common"}
        /\ ~Key_eq(out.body.elems[j].k, Lit("msg"))
        /\ ~Salvaged(j)
        /\ KeyAt(out.body.elems[j].k, out.at[j])
        /\ Untyped(ValueStart(j))}

\* C25: after the salvage branches the unspecified-value parser tries in order,
\* the first match winning: a run of safe-unquoted characters followed by a
\* separator, Str(run, None); a single-quoted key=value list and single-quoted
\* content, Str(inner, Single); double-quoted content, Str(inner, Double);
\* "{ key=value .. }" and "{ anything }", Str(inner, Braces); an empty value
\* followed by a separator, Empty; inner is without the delimiters and the Quote
\* is the delimiter that is in the input
C25_UnspecAlternatives ==
    out.t = "Ok" =>
        \A j \in UnspecEntries :
            /\ <<Norm(out.body.elems[j].v)>> = UnspecValue(ValueStart(j), TRUE)
            /\ Delimited(Norm(out.body.elems[j].v), ValueStart(j))

\* what does hold: the same with no condition on what follows the unquoted run
\* and the empty value
C25_UnspecAsCoded ==
    out.t = "Ok" =>
        \A j \in UnspecEntries :
            /\ <<Norm(out.body.elems[j].v)>> = UnspecValue(ValueStart(j), FALSE)
            /\ Delimited(Norm(out.body.elems[j].v), ValueStart(j))

\* a line with values of the three quotes and an empty value
C25_AllQuotes ==
    /\ out.t = "Ok"
    /\ \A q \in {"Single", "Double", "Braces"} :
          \E j \in UnspecEntries :
              out.body.elems[j].v.t = "Str" /\ out.body.elems[j].v.q = q
    /\ \E j \in UnspecEntries : out.body.elems[j].v.t = "Empty"
-----------------------------------------------------------------------------
(* The msg='...' sub-map of parse_kv_sq_as_map, under Spec *)

\* the end of a key [A-Za-z][A-Za-z0-9_-]* from index p, p when there is none
KeyEnd(p) ==
    IF p <= Len(inp.raw) /\ inp.raw[p] \in Alpha
    THEN RunEnd(KeyChr, inp.raw, p + 1) ELSE p

\* a key and "=" stand after the spaces from index e on
KeyEqAfter(e) ==
    LET p == RunEnd(Space, inp.raw, e)
    IN  /\ p > e
        /\ KeyEnd(p) > p
        /\ KeyEnd(p) <= Len(inp.raw)
        /\ inp.raw[KeyEnd(p)] = 61

\* the first index from p on that holds a single quote, or a space with spaces,
\* a key and "=" from it on; 0 when there is none
WordsEnd(p) ==
    LET stops == {e \in p..Len(inp.raw) :
                     inp.raw[e] = 39 \/ (inp.raw[e] = 32 /\ KeyEqAfter(e))}
    IN  IF stops = {} THEN 0 ELSE MinOf(stops)

\* the index after the encoded value at p, when EncodedValue(p, FALSE, TRUE) is one
EncodedEnd(p) ==
    IF DqSafeEnd(p) # 0 THEN DqSafeEnd(p)
    ELSE IF PairsEnd(p) > p /\ SepAt(PairsEnd(p)) THEN PairsEnd(p)
    ELSE NullEnd(p)

\* the value of a sub-map entry whose value text begins at p
SubValue(p) ==
    IF EncodedValue(p, FALSE, TRUE) # <<>> THEN EncodedValue(p, FALSE, TRUE)
    ELSE <<[t |-> "Str", tok |-> Slice(inp.raw, p, WordsEnd(p)), q |-> "None"]>>

\* the index after that value
SubValueEnd(p) ==
    IF EncodedValue(p, FALSE, TRUE) # <<>> THEN EncodedEnd(p) ELSE WordsEnd(p)

\* the index of the value of an entry that has key k at p, after "=" or after
\* ":" and spaces; 0 when the text at p is no such entry
EntryValueAt(k, p) ==
    LET e == p + Len(Key_fmt(k))
    IN  IF ~(KeyEnd(p) = e /\ Slice(inp.raw, p, e) = Key_fmt(k) /\ e <= Len(inp.raw))
        THEN 0
        ELSE IF inp.raw[e] = 61 THEN e + 1
        ELSE IF inp.raw[e] = 58 THEN RunEnd(Space, inp.raw, e + 1)
        ELSE 0

RECURSIVE Listed(_, _, _)
\* the entries j.. of kvs are the text from p on: each a key, "=" or ":" and
\* spaces, and its value; spaces between two; the single quote after the last
Listed(kvs, j, p) ==
    LET v == EntryValueAt(kvs[j].k, p)
        e == SubValueEnd(v)
    IN  /\ v # 0
        /\ <<kvs[j].v>> = SubValue(v)
        /\ e # 0
        /\ IF j = Len(kvs) THEN e <= Len(inp.raw) /\ inp.raw[e] = 39
           ELSE RunEnd(Space, inp.raw, e) > e
                /\ Listed(kvs, j + 1, RunEnd(Space, inp.raw, e))

\* the entries of the body that are a msg with a Map
MsgEntries ==
    {j \in 1..Len(out.body.elems) :
        out.body.elems[j].k = KeyCommon(Common_try_from(Lit("msg"))) /\ out.body.elems[j].v.t = "Map"}

\* the entries of the Map of entry j
SubMap(j) == Norm(out.body.elems[j].v).kvs

\* C26: with split_msg, the entries of a msg='...' Map are key, "=" or ":" and
\* spaces, value, separated by spaces and in the order of the text; a value that
\* is no encoded value is Str(text, None) of the text up to the closing quote or
\* the spaces before the next key and "=", embedded spaces included
C26_SubMapEntries ==
    out.t = "Ok" =>
        \A j \in MsgEntries :
            /\ inp.split_msg
            /\ ValueStart(j) + 1 <= Len(inp.raw)
            /\ inp.raw[ValueStart(j)] = 39
            /\ IF SubMap(j) = <<>> THEN inp.raw[ValueStart(j) + 1] = 39
               ELSE Listed(SubMap(j), 1, ValueStart(j) + 1)

\* a Map with a value that holds a space, and an entry written with ":"
C26_EmbeddedSpaces ==
    /\ out.t = "Ok"
    /\ \E j \in MsgEntries : \E n \in 1..Len(SubMap(j)) :
          /\ SubMap(j)[n].v.t = "Str"
          /\ SubMap(j)[n].v.q = "None"
          /\ \E i \in 1..Len(SubMap(j)[n].v.tok) : SubMap(j)[n].v.tok[i] = 32
          /\ \E m \in 1..Len(SubMap(j)) :
                m > n /\ SubMap(j)[m].v.t = "Str" /\ SubMap(j)[m].v.q = "None"
    /\ \E j \in MsgEntries : \E n \in 1..Len(SubMap(j)) :
          inp.raw[ValueStart(j) + 1 + Len(Key_fmt(SubMap(j)[n].k))] = 58
-----------------------------------------------------------------------------
(* The optional newline at the end of the line, under Spec *)

\* the line does not end in a newline
NoNewline == inp.raw = <<>> \/ inp.raw[Len(inp.raw)] # NL[1]

\* the result of the same parser for the line with a newline appended
WithNewline == Parser_parse(inp.raw \o NL, inp.enriched, inp.split_msg, FALSE, {}, FALSE).res

\* C27: for every line L that does not end in a newline, L and L followed by a
\* newline are both accepted or both rejected, and when accepted they give the same
\* Message: the same id, node, type, keys and values, the value of the last pair
\* included
C27_NewlineOptional ==
    (out.t \in {"Ok", "Err"} /\ NoNewline) => SameMessage(out, WithNewline)

\* both accepted or both rejected
C27_SameVerdict ==
    (out.t \in {"Ok", "Err"} /\ NoNewline) => ((out.t = "Ok") <=> (WithNewline.t = "Ok"))

\* what does hold: two accepted lines give the same id, node, type and keys, and
\* the same values but for the value of the last pair
C27_SameButLastValue ==
    (out.t = "Ok" /\ NoNewline /\ WithNewline.t = "Ok") =>
        /\ out.id = WithNewline.id /\ out.node = WithNewline.node /\ out.ty = WithNewline.ty
        /\ Len(EntriesOf(out)) = Len(EntriesOf(WithNewline))
        /\ \A j \in 1..Len(EntriesOf(out)) :
              /\ EntriesOf(out)[j].k = EntriesOf(WithNewline)[j].k
              /\ j < Len(EntriesOf(out)) => EntriesOf(out)[j].v = EntriesOf(WithNewline)[j].v

\* a line without newline whose last value is a Str and is a Number or Empty
\* when the newline is there
C27_LastValueDiffers ==
    /\ out.t = "Ok" /\ NoNewline /\ WithNewline.t = "Ok"
    /\ Len(EntriesOf(out)) > 1
    /\ EntriesOf(out)[Len(EntriesOf(out))].v.t = "Str"
    /\ EntriesOf(WithNewline)[Len(EntriesOf(out))].v.t \in {"Number", "Empty"}
-----------------------------------------------------------------------------
(* Encoded values in the msg='...' sub-map, under Spec *)

RECURSIVE ValueStarts(_, _, _)
\* the indices where the values of the entries j.. of kvs begin, the entries
\* listed from p on
ValueStarts(kvs, j, p) ==
    IF j > Len(kvs) \/ EntryValueAt(kvs[j].k, p) = 0 THEN <<>>
    ELSE <<EntryValueAt(kvs[j].k, p)>>
         \o ValueStarts(kvs, j + 1,
                        RunEnd(Space, inp.raw, SubValueEnd(EntryValueAt(kvs[j].k, p))))

\* where the value of entry n of the Map of entry j begins
SubValueStart(j, n) == ValueStarts(SubMap(j), 1, ValueStart(j) + 1)[n]

\* "?", "(null)" or hex digit pairs begin at p and end at an index that holds one
\* of the bytes in after
EncodedBefore(p, after) ==
    \/ NullEnd(p) # 0 /\ NullEnd(p) <= Len(inp.raw) /\ inp.raw[NullEnd(p)] \in after
    \/ PairsEnd(p) > p /\ PairsEnd(p) <= Len(inp.raw) /\ inp.raw[PairsEnd(p)] \in after

\* the entries of the sub-maps whose value text is "?", "(null)" or hex digit
\* pairs before one of the bytes in after are Empty and the decoded bytes
SubMapEncoded(after) ==
    out.t = "Ok" =>
        \A j \in MsgEntries : \A n \in 1..Len(SubMap(j)) :
            EncodedBefore(SubValueStart(j, n), after) =>
                <<SubMap(j)[n].v>> = EncodedValue(SubValueStart(j, n), FALSE, FALSE)

\* C28: in a msg='...' sub-map a value "?" or "(null)" is Empty and a hex-encoded
\* value is its decoded bytes, both before a space and another entry and as the
\* last entry before the closing single quote
C28_SubMapEncodedAnywhere == SubMapEncoded({32, 39})

\* what does hold: the same for the values that a space follows
C28_SubMapEncodedBeforeSpace == SubMapEncoded({32})

\* a sub-map with "?", "(null)" or hex digit pairs before a space, and one with
\* such a last entry
C28_BothPositions ==
    /\ out.t = "Ok"
    /\ \E j \in MsgEntries : \E n \in 1..Len(SubMap(j)) :
          EncodedBefore(SubValueStart(j, n), {32})
    /\ \E j \in MsgEntries :
          EncodedBefore(SubValueStart(j, Len(SubMap(j))), {39})
-----------------------------------------------------------------------------
(* No Owned value in a Body, under SpecBody *)

RECURSIVE NoOwned(_)
\* v is no Value::Owned and holds none, at any depth
NoOwned(v) ==
    /\ v.t # "Owned"
    /\ v.t \in {"List", "StringifiedList"} => \A j \in 1..Len(v.vs) : NoOwned(v.vs[j])
    /\ v.t = "Map" => \A j \in 1..Len(v.kvs) : NoOwned(v.kvs[j].v)

\* the pushed value v is an Owned or holds one
HasOwned(v) == ~NoOwned(v)

\* the values of key name among the entries es
ValuesOf(es, name) == {es[j].v : j \in {i \in 1..Len(es) : Key_eq(es[i].k, name)}}

\* C29: no value of a Body is Value::Owned, at any depth; an Owned(bytes) that push
\* received, directly or inside a List, StringifiedList or Map, is stored as
\* Str(bytes, Quote::None) with the bytes in the arena, and the hex-decoded value
\* of a parsed line is such a Str of the decoded bytes
C29_NoOwnedStored ==
    \A b \in Slots : bodies[b].live =>
        /\ \A j \in 1..Len(bodies[b].elems) :
              /\ NoOwned(bodies[b].elems[j].v)
              /\ \A sl \in SlicesOf(bodies[b].elems[j].v) :
                    \E n \in 1..Len(bodies[b].arena) : Holds(bodies[b].arena[n], sl)
        /\ Entries(bodies[b].elems) = log[b]
        /\ \A v \in ValuesOf(bodies[b].elems, Lit("proctitle")) :
              v.t = "Str" /\ v.q = "None" /\ v.sl.tok = Lit("ls")

\* the live bodies hold the entry pushed with an Owned value inside a List, a
\* StringifiedList and a Map, the entry pushed as an Owned value, and the parsed,
\* hex-decoded proctitle
C29_Witness ==
    /\ \E b \in Slots : bodies[b].live /\ \E j \in 1..Len(bodies[b].elems) :
          /\ bodies[b].elems[j].v.t = "List"
          /\ \E item \in PushItems : HasOwned(item.v) /\ Norm(item.v) = log[b][j].v
    /\ \E b \in Slots : bodies[b].live /\ \E j \in 1..Len(bodies[b].elems) :
          bodies[b].elems[j].v.t = "Str" /\ Len(bodies[b].elems[j].v.sl.tok) = 414
    /\ \E b \in Slots : bodies[b].live /\ ValuesOf(bodies[b].elems, Lit("proctitle")) # {}
-----------------------------------------------------------------------------
(* Specification SpecLoop: the repetitions of the parser, one iteration a step *)

\* how many iterations of a repetition are counted
MaxIters == 2

\* the lines the repetitions are followed on
RepLines == {
    Lit("avc:  denied  { read write } for  pid=2 comm=\"sh\"\n"),
    Lit("msg='op=PAM:session open acct=\"root\" exe=/bin/su hostname=? res=ok'\n"),
    Lit("argc=2 a0=\"ls\" a1=2D6C a2_len=4 a2[0]=6162\n"),
    Lit("k='a b' e=f|g h="),
    Lit("pid=1  uid=0\n"),
    Lit("pid=1") \o GS \o Lit("UID=\"root\"\n") }

RepInputs ==
    {Input(PlainHdr(Lit("AVC")), Header(PlainHdr(Lit("AVC"))) \o b, e, TRUE) :
        b \in RepLines, e \in BOOLEAN}

\* the repetitions, and the message types the key/value list is followed with
RepNames == {"kv", "avc", "hex", "words", "map"}
RepTypes(name) ==
    IF name = "kv"
    THEN {MessageTypeOf("AVC"), MessageTypeOf("EXECVE"), MessageTypeOf("SYSCALL")}
    ELSE {NoType}

\* the index after the element that the repetition name has at index p of the
\* line s, 0 when it has none there: a pair, an identifier and spaces, two hex
\* digits, an item of the sub-map, or what the words loop breaks before
ElementEnd(name, ty, s, p, split_msg) ==
    LET e == IF name = "kv" THEN parse_kv(s, p, ty, split_msg)
             ELSE IF name = "avc"
             THEN Then(parse_identifier(s, p), LAMBDA id : Ok(RunEnd(Space, s, id.pos), <<>>))
             ELSE IF name = "hex"
             THEN (IF p + 1 <= Len(s) /\ s[p] \in HexDigit /\ s[p + 1] \in HexDigit
                   THEN Ok(p + 2, <<>>) ELSE Fail)
             ELSE IF name = "map" THEN map_item(s, p)
             ELSE words_break(s, p)
    IN  IF e.ok THEN e.pos ELSE 0

\* where the element parser of the repetition ends, by the index it is called at
Elements(name, ty, s, split_msg) ==
    [q \in 1..(Len(s) + 1) |-> ElementEnd(name, ty, s, q, split_msg)]

\* a repetition about to start at index p of the line
Starting(name, ty, p, elem) ==
    [name |-> name, ty |-> ty, from |-> p, pos |-> p, n |-> 0,
     done |-> FALSE, failed |-> FALSE, elem |-> elem]

\* the repetition r after an iteration that called the element parser at index q
\* (no call when q is 0): on behind the element, or over
Advance(r, q) ==
    IF q # 0 /\ r.elem[q] # 0
    THEN [r EXCEPT !.pos = r.elem[q], !.n = IF @ < MaxIters THEN @ + 1 ELSE @]
    ELSE [r EXCEPT !.done = TRUE]

\* the index after the separator of the pairs at index p, 0 when there is none:
\* tag(" "), or with enriched take_while1 of spaces and 0x1d
SepEnd(s, p, enriched) ==
    IF enriched THEN (IF RunEnd({32, 29}, s, p) > p THEN RunEnd({32, 29}, s, p) ELSE 0)
    ELSE IF p <= Len(s) /\ s[p] = 32 THEN p + 1
    ELSE 0

\* separated_list0(sep, parse_kv): the first pair, or a separator and a pair
one_pair(s, r, enriched) ==
    Advance(r, IF r.n = 0 THEN r.pos ELSE SepEnd(s, r.pos, enriched))

\* many1(terminated(parse_identifier, space0)): one identifier and the spaces
one_identifier(s, r) == Advance(r, r.pos)

\* many1_count(take_while_m_n(2, 2, is_hex_digit)): one pair of hex digits
one_hex_pair(s, r) == Advance(r, r.pos)

\* separated_list0(space1, item) of parse_kv_sq_as_map: the first item, or spaces
\* and an item
one_map_item(s, r) ==
    Advance(r, IF r.n = 0 THEN r.pos
               ELSE IF RunEnd(Space, s, r.pos) > r.pos THEN RunEnd(Space, s, r.pos)
               ELSE 0)

\* that round with space0 for space1: it goes on where no space is
words_round_space0(s, r) ==
    IF r.elem[RunEnd(Byte \ {39, 32}, s, r.pos)] # 0
    THEN [r EXCEPT !.pos = RunEnd(Byte \ {39, 32}, s, r.pos), !.done = TRUE]
    ELSE [r EXCEPT !.pos = RunEnd(Space, s, RunEnd(Byte \ {39, 32}, s, r.pos)),
                   !.n = IF @ < MaxIters THEN @ + 1 ELSE @]

\* one round of the loop of parse_str_words_inside_sq: take_while, then break
\* before a quote or before spaces, key and "=", else space1 or its error
words_round(s, r) ==
    IF r.elem[RunEnd(Byte \ {39, 32}, s, r.pos)] # 0
    THEN [r EXCEPT !.pos = RunEnd(Byte \ {39, 32}, s, r.pos), !.done = TRUE]
    ELSE IF RunEnd(Space, s, RunEnd(Byte \ {39, 32}, s, r.pos))
            = RunEnd(Byte \ {39, 32}, s, r.pos)
    THEN [r EXCEPT !.pos = RunEnd(Byte \ {39, 32}, s, r.pos),
                   !.done = TRUE, !.failed = TRUE]
    ELSE [r EXCEPT !.pos = RunEnd(Space, s, RunEnd(Byte \ {39, 32}, s, r.pos)),
                   !.n = IF @ < MaxIters THEN @ + 1 ELSE @]

LoopInit ==
    /\ lit = LitTab
    /\ RepIdle
    /\ inp \in RepInputs
    /\ out = NoResult
    /\ BodyIdle
    /\ TextIdle

\* the parser comes to a repetition, at some index of the line
RepStart ==
    /\ rep = NoRep
    /\ \E name \in RepNames : \E ty \in RepTypes(name) :
          \E elem \in {Elements(name, ty, inp.raw, inp.split_msg)} :
              \E p \in 1..(Len(inp.raw) + 1) : rep' = Starting(name, ty, p, elem)
    /\ UNCHANGED <<lit, obj, text, back, step, inp, out, bodies, heap, log, made>>

\* the running repetition name does one iteration and is r after it
Iterate(name, r) ==
    /\ rep.name = name
    /\ ~rep.done
    /\ rep' = r
    /\ UNCHANGED <<lit, obj, text, back, step, inp, out, bodies, heap, log, made>>

KvStep == Iterate("kv", one_pair(inp.raw, rep, inp.enriched))
AvcStep == Iterate("avc", one_identifier(inp.raw, rep))
HexStep == Iterate("hex", one_hex_pair(inp.raw, rep))
MapStep == Iterate("map", one_map_item(inp.raw, rep))
WordsStep == Iterate("words", words_round(inp.raw, rep))

\* one iteration of the running repetition
Iteration == KvStep \/ AvcStep \/ HexStep \/ MapStep \/ WordsStep

LoopNext == RepStart \/ Iteration

\* the parser is synchronous: an iteration that can run does run
SpecLoop == LoopInit /\ [][LoopNext]_vars /\ WF_vars(Iteration)

-----------------------------------------------------------------------------
(* Termination of the repetitions, under SpecLoop *)

\* an iteration ends the repetition or leaves it at a later index of the line
Progress == [][rep # NoRep => (rep'.done \/ rep'.pos > rep.pos)]_vars

\* C30: Parser::parse terminates on every finite line: each iteration of the
\* key/value list, of the AVC identifier list, of the hex-pair run, of the sub-map
\* list and of the loop of parse_str_words_inside_sq consumes at least one byte or
\* ends the repetition, and every repetition comes to its end
C30_RepetitionsEnd == Progress /\ (rep # NoRep ~> rep.done)

\* the loop of parse_str_words_inside_sq went round MaxIters times, over spaces
\* inside a value, and broke
C30_Witness ==
    /\ rep.name = "words" /\ rep.done /\ ~rep.failed
    /\ rep.n = MaxIters
    /\ rep.pos > rep.from

\* the index a repetition ends at is the one the parser's recognizers give
C30_SameEnd ==
    rep.done =>
        /\ rep.name = "kv" =>
              rep.pos = kv_list(inp.raw, rep.from, rep.ty, inp.enriched, inp.split_msg).pos
        /\ rep.name = "avc" => rep.pos = identifiers(inp.raw, rep.from, <<>>).pos
        /\ rep.name = "hex" => rep.pos = PairsEnd(rep.from)
        /\ rep.name = "words" =>
              words_end(inp.raw, rep.from) = IF rep.failed THEN 0 ELSE rep.pos
        /\ rep.name = "map" =>
              rep.pos = IfOk(map_item(inp.raw, rep.from),
                             LAMBDA f : map_more(inp.raw, f.pos, <<f.val>>),
                             Ok(rep.from, <<>>)).pos
====
